---- MODULE Spec2Model ----
(***************************************************************************)
(* Model of the NeuroConscious agent cognition engine: the consciousness   *)
(* state machine (Agent.think / transition_to_state and the Awake, Asleep  *)
(* and Focused states), the decision arbiter                               *)
(* (DecisionMaker.decide_final_action), the action effects                 *)
(* (Agent._act_default, AsleepState.act) and the world loop (World.step).  *)
(*                                                                         *)
(* Numbers.  A decimal literal of the program in [0,2) is written as the   *)
(* integer 10000 times as large (0.85 is 8500), rewards in hundredths      *)
(* (0.6 is 60).  The needs, the priorities the program multiplies and the  *)
(* thresholds they are compared with are IEEE doubles, and the model       *)
(* computes with the doubles themselves: see "Binary floating point".      *)
(***************************************************************************)
EXTENDS Integers, Sequences, FiniteSets, TLC

(***************************************************************************)
(* Bounds of the model.                                                    *)
(***************************************************************************)
\* number of World.step rounds explored by the world loop
MaxTicks == 3
\* number of calls explored by the long, narrow run of think and act
MaxTicksLong == 6
\* number of public-method calls explored by the call-level specification
MaxCalls == 2

(***************************************************************************)
(* Program constants.                                                      *)
(***************************************************************************)
\* 1.0 on the integer scale
U == 10000
GRID_SIZE == 10
MAX_FOOD_ITEMS == 5
MAX_WATER_ITEMS == 3
\* Agent.__init__: perception_accuracy = 0.95
PerceptionAccuracy == 9500
\* deque(maxlen=5)
WorkingMemoryCapacity == 5
\* InternalState.update: hunger + 0.01 * delta_time, fatigue + 0.005 * delta_time
HungerRate == 100
FatigueRate == 50
\* DecisionMaker: critical needs override
CriticalThreshold == 8500
\* Agent.think: transition thresholds
SleepThreshold == 9000
WakeThreshold == 2000
FocusThreshold == 8000
FoodFocusExit == 3000
WaterFocusExit == 2000

States == {"Awake", "Asleep", "Focused"}
\* DQNLearner(actions=[...]) in Agent.__init__
Actions == {"seek_food", "rest", "explore", "move_up", "move_down", "move_left",
            "move_right", "move_object", "drink_water"}
Moves == {"move_up", "move_down", "move_left", "move_right"}
\* an action string outside the learner's action list
UnknownAction == "dance"
\* an action string outside the list that starts with "move_"
UnknownMove == "move_diagonal"
NoFocus == "None"
NoLoc == <<-1, -1>>
NoGoal == "None"

Coords == 0 .. (GRID_SIZE - 1)
Cells == Coords \X Coords
InGrid(c) == c[1] \in Coords /\ c[2] \in Coords

Min(a, b) == IF a < b THEN a ELSE b
Max(a, b) == IF a > b THEN a ELSE b
Abs(a) == IF a < 0 THEN -a ELSE a

(***************************************************************************)
(* Binary floating point.  The program's reals are IEEE doubles, and its   *)
(* sums drift off the decimal values: 0.65 + 0.05 is 0.7000000000000001,   *)
(* which is > 0.7, and 1.0 - 0.8 is 0.19999999999999996, which is < 0.2.   *)
(* A double x of [0,2) that is a multiple of 2^-60 is kept as the integer  *)
(*     Level(x) * Fine + Offset(x),                                        *)
(* Level(x) being the multiple of 0.0001 nearest to x, and Offset(x) the   *)
(* distance, in units of 2^-60, from x down to the multiple of 2^-60       *)
(* nearest to that decimal.  The order of the integers is the order of the *)
(* doubles.  Every double from 0.004 up is a multiple of 2^-60, and so is  *)
(* every sum and difference of such doubles; the literals of the program   *)
(* are all above 0.004.  Sums, differences and products are rounded to the *)
(* nearest double, ties to even, as the hardware rounds them.              *)
(***************************************************************************)
\* integers kept for one step of 0.0001
Fine == 10 ^ 5
Level(v) == (v + Fine \div 2) \div Fine
Offset(v) == v - Level(v) * Fine

\* the levels the tables below are kept for: 0.0001 up to 2.0
Levels == 2 * U

\* the decimal n / 10000 is n * 2^56 / 625 units of 2^-60; GridErrorOf(n) / 625
\* is what the nearest whole number of units, GridPoint(n), has above it
GridErrorOf(n) ==
    LET r == (n * ((2 ^ 28 % 625) * (2 ^ 28 % 625) % 625)) % 625
    IN IF r <= 312 THEN -r ELSE 625 - r

\* GridPoint(n) modulo 512
GridResidueOf(n) ==
    LET high == (n * ((2 ^ 28 % 625) * (2 ^ 19 % 625) % 625)) % 625
    IN ((512 * high + GridErrorOf(n)) % (512 * 625)) \div 625

\* both, worked out once for every level and looked up from then on
GridErrorTable == SubSeq([n \in 1..Levels |-> GridErrorOf(n)], 1, Levels)
GridResidueTable == SubSeq([n \in 1..Levels |-> GridResidueOf(n)], 1, Levels)
GridError(n) == IF n = 0 THEN 0 ELSE GridErrorTable[n]
GridResidue(n) == IF n = 0 THEN 0 ELSE GridResidueTable[n]

\* the spacing of the doubles around GridPoint(n) + k, in units of 2^-60: 2^-52
\* from 1.0 up, 2^-53 from 0.5 up, and so on down to 2^-60 below 2^-7
Ulp(n, k) ==
    IF n > 10000 \/ (n = 10000 /\ k >= 0) THEN 256
    ELSE IF n > 5000 \/ (n = 5000 /\ k >= 0) THEN 128
    ELSE IF n > 2500 \/ (n = 2500 /\ k >= 0) THEN 64
    ELSE IF n > 1250 \/ (n = 1250 /\ k >= 0) THEN 32
    ELSE IF n > 625 \/ (n = 625 /\ k >= 0) THEN 16
    ELSE IF n >= 313 THEN 8
    ELSE IF n >= 157 THEN 4
    ELSE IF n >= 79 THEN 2
    ELSE 1

\* the double nearest to GridPoint(n) + k + a fraction of a unit, g being the
\* spacing of the doubles there and s the place of GridPoint(n) + k within two
\* spacings; f tells the fraction: 0 none, 1 below a half, 2 a half, 3 above
RoundWithin(n, k, f, g, s) ==
    n * Fine + k - (s % g)
      + (IF g = 1 THEN (IF f = 3 \/ (f = 2 /\ s = 1) THEN g ELSE 0)
         ELSE IF 2 * (s % g) > g \/ (2 * (s % g) = g /\ (f > 0 \/ s >= g)) THEN g
         ELSE 0)

RoundBy(n, k, f, g) == RoundWithin(n, k, f, g, (GridResidue(n) + k) % (2 * g))

RoundToDouble(n, k, f) == RoundBy(n, k, f, Ulp(n, k))

\* the double a decimal literal n / 10000 stands for
DblOf(n) ==
    RoundToDouble(n, IF GridError(n) > 0 THEN -1 ELSE 0,
                  IF GridError(n) = 0 THEN 0 ELSE IF GridError(n) > 0 THEN 3 ELSE 1)

\* the same, looked up
DblTable == SubSeq([n \in 1..Levels |-> DblOf(n)], 1, Levels)
Dbl(n) == IF n = 0 THEN 0 ELSE DblTable[n]

\* x + y
FAdd(x, y) ==
    RoundToDouble(Level(x) + Level(y),
                  Offset(x) + Offset(y)
                    + (GridError(Level(x)) + GridError(Level(y))
                         - GridError(Level(x) + Level(y))) \div 625,
                  0)

\* max(0.0, x - y)
FSubFloor(x, y) ==
    IF x <= y THEN 0
    ELSE RoundToDouble(Level(x) - Level(y),
                       Offset(x) - Offset(y)
                         + (GridError(Level(x)) - GridError(Level(y))
                              - GridError(Level(x) - Level(y))) \div 625,
                       0)

\* the product whose decimal is n / 10000 and whose rest is num / 6250000
\* units; the product of the two distances from the decimals is far below a
\* unit, and its sign decides where the rest is no fraction or a half
FMulRound(n, q, r, sign) ==
    IF r = 0 /\ sign < 0 THEN RoundToDouble(n, q - 1, 3)
    ELSE RoundToDouble(n, q, IF r = 0 THEN (IF sign > 0 THEN 1 ELSE 0)
                             ELSE IF 2 * r < 6250000 THEN 1
                             ELSE IF 2 * r > 6250000 THEN 3
                             ELSE IF sign > 0 THEN 3 ELSE IF sign < 0 THEN 1 ELSE 2)

FMulRest(n, num, sign) == FMulRound(n, num \div 6250000, num % 6250000, sign)

FMulErrors(n, lx, ly, ex, ey) ==
    FMulRest(n, lx * ey + ly * ex - 10000 * GridError(n),
             IF ex = 0 \/ ey = 0 THEN 0 ELSE IF (ex > 0) = (ey > 0) THEN 1 ELSE -1)

\* x * y, for factors whose decimals multiply to a multiple of 0.0001
FMul(x, y) ==
    FMulErrors((Level(x) * Level(y)) \div 10000, Level(x), Level(y),
               GridError(Level(x)) + 625 * Offset(x), GridError(Level(y)) + 625 * Offset(y))

\* InternalState._clamp_value: max(0.0, min(1.0, value))
Clamp(v) == IF v < 0 THEN 0 ELSE IF v > Dbl(U) THEN Dbl(U) ELSE v

VARIABLES
    internal_state,          \* [hunger, fatigue, thirst]
    emotion_state,           \* [curiosity]
    current_consciousness_state,
    attention_focus,
    active_goals,            \* sequence of goal records
    pos,                     \* <<pos_x, pos_y>>
    perception,
    working_memory_buffer,   \* sequence of at most 5 items, oldest first
    procedures,              \* sequence of procedure records (proc_0 .. proc_3)
    modules,                 \* [last_goal_check_step, last_generation_step]
    current_time_step,       \* the agent's step counter
    last_action_reward,
    learner,                 \* [updates] q_learner.update calls that pushed a transition
    episodic,                \* [writes] episodic_memory.add calls
    world,                   \* [time_step, time_of_day, current_weather]
    grid,                    \* World.grid: [food, water, obstacle], sets of cells
    pc,                      \* position in World.step, or "api" / "crashed"
    pending,                 \* the action think() returned, passed to act()
    calls,                   \* calls a caller made so far, other than World.step
    op,                      \* the operation performed by the latest step
    focus_cause,             \* which need put the agent into Focused ("none" outside it)
    horizon,                 \* rounds the run explores
    last_think,              \* observation of the latest Agent.think call
    last_decide,             \* observation of the latest decide_final_action call
    last_transition,         \* observation of the latest direct transition_to_state call
    last_act,                \* observation of the latest Agent.act call
    q_learner,               \* the DQNLearner object
    model_file,              \* the learner's model file, NoFile if there is none
    q_trace,                 \* observation of the calls made on the learner
    name,                    \* which agent of World.agents the variables above describe
    roster,                  \* the other agents of World.agents, the next to run first
    turn,                    \* agents that completed their cycle in the current World.step
    tick_log                 \* <<name, method>> for every agent method World.step called

vars == <<internal_state, emotion_state, current_consciousness_state, attention_focus,
          active_goals, pos, perception, working_memory_buffer, procedures, modules,
          current_time_step, last_action_reward, learner, episodic, world, grid, pc,
          pending, calls, op, focus_cause, horizon, last_think, last_decide,
          last_transition, last_act, q_learner, model_file, q_trace, name, roster, turn,
          tick_log>>

\* the learner's part of the state, and the agent's and the world's
learner_vars == <<q_learner, model_file, q_trace>>
loop_vars == <<name, roster, turn, tick_log>>
agent_vars == <<internal_state, emotion_state, current_consciousness_state, attention_focus,
                active_goals, pos, perception, working_memory_buffer, procedures, modules,
                current_time_step, last_action_reward, learner, episodic, world, grid,
                pending, focus_cause, last_think, last_decide, last_transition, last_act>>

(***************************************************************************)
(* The grid.  World.grid is a matrix of cell contents; the model keeps the *)
(* three sets of occupied cells, every other cell being 'empty'.           *)
(***************************************************************************)
GridAt(g, c) ==
    IF c \in g.food THEN "food"
    ELSE IF c \in g.water THEN "water"
    ELSE IF c \in g.obstacle THEN "obstacle"
    ELSE "empty"

(***************************************************************************)
(* Goals (Agent._initialize_goals).  A goal id is a pair <<name, step>>,   *)
(* the step being -1 for the default goals and the creation step for the   *)
(* goals of GoalGenerator (f"goal_seek_food_{step}").  Fields a goal type  *)
(* does not have carry a neutral value.                                    *)
(***************************************************************************)
Goal(id, type, priority, parent, target, threshold, duration) ==
    [id |-> id, type |-> type, priority |-> priority, completed |-> FALSE,
     parent_goal_id |-> parent, prerequisites |-> {}, target |-> target,
     threshold |-> threshold, duration_steps |-> duration, current_duration |-> 0,
     obstacle_location |-> NoLoc]

NoGoalId == <<NoGoal, -1>>
ReachCenterId == <<"goal_reach_center", -1>>
ClearObstacleId == <<"sub_goal_clear_obstacle", -1>>

InitialGoals ==
    << Goal(ReachCenterId, "reach_location", 9000, NoGoalId, <<5, 5>>, 0, 0),
       Goal(ClearObstacleId, "clear_path", 8500, ReachCenterId, NoLoc, 0, 0),
       Goal(<<"goal_stay_fed", -1>>, "maintain_hunger_low", 6000, NoGoalId, NoLoc, 3000, 20),
       Goal(<<"goal_stay_hydrated", -1>>, "maintain_thirst_low", 7000, NoGoalId, NoLoc, 2000, 15) >>

(***************************************************************************)
(* Procedures (Agent._initialize_procedures, ProceduralMemory.add_procedure)*)
(***************************************************************************)
Procedure(ctype, threshold, action, priority) ==
    [ctype |-> ctype, threshold |-> threshold, action |-> action, priority |-> priority,
     last_triggered_step |-> -1, success_count |-> 0, failure_count |-> 0]

InitialProcedures ==
    << Procedure("hunger_high", 7000, "seek_food", 8000),
       Procedure("fatigue_high", 7000, "rest", 7000),
       Procedure("obstacle_blocking_path", 0, "move_object", 9000),
       Procedure("thirst_high", 7000, "drink_water", 8500) >>

InitialPerception ==
    [time_of_day |-> "day", current_weather |-> "sunny", food_in_sight |-> FALSE,
     water_in_sight |-> FALSE, obstacle_in_sight |-> FALSE, obstacle_locations |-> <<>>,
     other_agents_in_sight |-> FALSE]

(***************************************************************************)
(* InternalState.update(delta_time): hunger and fatigue grow at fixed      *)
(* rates and are clamped.  delta is in tenths (10 by day, 15 by night):    *)
(* the step is the product 0.01 * delta_time.                              *)
(* update does not touch thirst, which the agent keeps as a plain          *)
(* attribute of the object: it changes only where an action changes it.    *)
(***************************************************************************)
Update(s, delta) ==
    [hunger |-> Clamp(FAdd(s.hunger, FMul(Dbl(HungerRate), Dbl(delta * 1000)))),
     fatigue |-> Clamp(FAdd(s.fatigue, FMul(Dbl(FatigueRate), Dbl(delta * 1000)))),
     thirst |-> s.thirst]

(***************************************************************************)
(* BasicEmotionStrategy.update_emotions: only curiosity is read by the     *)
(* decision logic; joy, fear and frustration only weigh episodic records.  *)
(***************************************************************************)
UpdateEmotions(s) ==
    [curiosity |-> IF s.hunger < Dbl(3000) /\ s.fatigue < Dbl(3000) THEN 8000 ELSE 3000]

(***************************************************************************)
(* Working memory: deque(maxlen=5).append drops the oldest item.           *)
(***************************************************************************)
Append5(buf, item) ==
    LET b == Append(buf, item)
    IN IF Len(b) > WorkingMemoryCapacity THEN Tail(b) ELSE b

RECURSIVE AppendAll(_, _)
AppendAll(buf, items) ==
    IF items = <<>> THEN buf ELSE AppendAll(Append5(buf, Head(items)), Tail(items))

(***************************************************************************)
(* Agent._sense_default.  The 3x3 view is scanned row by row; a cell is    *)
(* perceived when random.random() < accuracy, which cannot fail once the   *)
(* accuracy has reached 1.0.                                               *)
(***************************************************************************)
ViewSeq(p) ==
    << <<p[1] - 1, p[2] - 1>>, <<p[1] - 1, p[2]>>, <<p[1] - 1, p[2] + 1>>,
       <<p[1], p[2] - 1>>,     <<p[1], p[2]>>,     <<p[1], p[2] + 1>>,
       <<p[1] + 1, p[2] - 1>>, <<p[1] + 1, p[2]>>, <<p[1] + 1, p[2] + 1>> >>

CellAccuracy(base, focus, content) ==
    IF \/ focus = "food" /\ content = "food"
       \/ focus = "water" /\ content = "water"
       \/ focus = "obstacle" /\ content = "obstacle"
    THEN Min(U, base + 2000)
    ELSE base

PerceivedKind(content) ==
    IF content = "food" THEN "perceived_food"
    ELSE IF content = "water" THEN "perceived_water"
    ELSE "perceived_obstacle"

\* cells of the view holding something the scan records
Visible(g, p) == {ViewSeq(p)[i] : i \in 1..9} \cap (g.food \cup g.water \cup g.obstacle)

\* cells the scan cannot miss
Certain(g, p, base, focus) ==
    {c \in Visible(g, p) : CellAccuracy(base, focus, GridAt(g, c)) >= U}

SenseDefault(base, seen, others) ==
    LET g == grid
        t == world.time_step
        inView(c) == c \in seen
        order == SelectSeq(ViewSeq(pos), inView)
        item(c) == [type |-> PerceivedKind(GridAt(g, c)), location |-> c, time |-> t]
        cellItems == [i \in 1..Len(order) |-> item(order[i])]
        isObstacle(c) == c \in seen /\ c \in g.obstacle
        agentItems == [i \in 1..others |->
                          [type |-> "perceived_agent", location |-> NoLoc, time |-> t]]
    IN /\ perception' = [time_of_day |-> world.time_of_day,
                         current_weather |-> world.current_weather,
                         food_in_sight |-> (seen \cap g.food # {}),
                         water_in_sight |-> (seen \cap g.water # {}),
                         obstacle_in_sight |-> (seen \cap g.obstacle # {}),
                         obstacle_locations |-> SelectSeq(ViewSeq(pos), isObstacle),
                         other_agents_in_sight |-> (others > 0)]
       /\ current_time_step' = t
       /\ working_memory_buffer' = AppendAll(working_memory_buffer, cellItems \o agentItems)

\* FocusedState.sense: accuracy raised by 0.3 (capped) for the duration of the scan
FocusedAccuracy ==
    IF attention_focus \in {"food", "water", "location_target"}
    THEN Min(U, PerceptionAccuracy + 3000) ELSE PerceptionAccuracy

\* AsleepState.sense: only time of day and weather; food and agents out of sight
AsleepSense ==
    /\ perception' = [perception EXCEPT !.time_of_day = world.time_of_day,
                                        !.current_weather = world.current_weather,
                                        !.food_in_sight = FALSE,
                                        !.other_agents_in_sight = FALSE]
    /\ UNCHANGED <<current_time_step, working_memory_buffer>>

\* the cells the other agents of World.agents stand on
RosterPositions == {roster[i].pos : i \in 1..Len(roster)}

\* how many other agents of World.agents the scan finds: it looks at the
\* eight cells around this one, each with a probability below 1, and takes
\* the first agent standing on a cell it looks at
OtherAgentOutcomes ==
    0..Cardinality(RosterPositions \cap ({ViewSeq(pos)[i] : i \in 1..9} \ {pos}))

\* Agent.sense: delegates to the current consciousness state
AgentSense ==
    IF current_consciousness_state = "Asleep" THEN AsleepSense
    ELSE LET base == IF current_consciousness_state = "Focused" THEN FocusedAccuracy
                     ELSE PerceptionAccuracy
         IN \E seen \in SUBSET Visible(grid, pos) : \E others \in OtherAgentOutcomes :
               /\ Certain(grid, pos, base, attention_focus) \subseteq seen
               /\ SenseDefault(base, seen, others)

(***************************************************************************)
(* Selection helpers.  Python's max(list, key=...) and the                 *)
(* "if priority > highest" loops both keep the first of equal maxima.      *)
(***************************************************************************)
Uncompleted(goals) == {i \in 1..Len(goals) : ~goals[i].completed}

\* index of the first uncompleted goal of the highest raw priority, 0 if none
TopGoal(goals) ==
    LET un == Uncompleted(goals)
    IN IF un = {} THEN 0
       ELSE CHOOSE i \in un : \A j \in un :
                \/ goals[j].priority < goals[i].priority
                \/ goals[j].priority = goals[i].priority /\ i <= j

\* index of the first goal satisfying a type and completion test, 0 if none
FirstOpenOfType(goals, type) ==
    LET s == {i \in 1..Len(goals) : goals[i].type = type /\ ~goals[i].completed}
    IN IF s = {} THEN 0 ELSE CHOOSE i \in s : \A j \in s : i <= j

\* index of the first of the highest values among the indices given, 0 if none
FirstHighest(among, value) ==
    IF among = {} THEN 0
    ELSE CHOOSE i \in among : \A j \in among :
             value[j] < value[i] \/ (value[j] = value[i] /\ i <= j)

GoalIndex(goals, id) ==
    LET s == {i \in 1..Len(goals) : goals[i].id = id}
    IN IF s = {} THEN 0 ELSE CHOOSE i \in s : \A j \in s : i <= j

\* "move_down" if pos_x < x else "move_up", rows first (dist_x > 0 ... elif dist_y > 0)
TowardRowsFirst(p, tgt, otherwise) ==
    IF p[1] # tgt[1] THEN (IF p[1] < tgt[1] THEN "move_down" ELSE "move_up")
    ELSE IF p[2] # tgt[2] THEN (IF p[2] < tgt[2] THEN "move_right" ELSE "move_left")
    ELSE otherwise

\* rows when abs(dx) > abs(dy), columns otherwise
TowardLarger(p, tgt) ==
    IF Abs(p[1] - tgt[1]) > Abs(p[2] - tgt[2])
    THEN (IF p[1] < tgt[1] THEN "move_down" ELSE "move_up")
    ELSE (IF p[2] < tgt[2] THEN "move_right" ELSE "move_left")

\* FocusedState.think: rows when dist_x > 0, columns otherwise
TowardFocused(p, tgt) ==
    IF p[1] # tgt[1]
    THEN (IF p[1] < tgt[1] THEN "move_down" ELSE "move_up")
    ELSE (IF p[2] < tgt[2] THEN "move_right" ELSE "move_left")

\* action.startswith("move_")
StartsWithMove(a) == a \in Moves \cup {"move_object", UnknownMove}

(***************************************************************************)
(* ProceduralMemory.get_triggered_procedure.  There is no branch for the   *)
(* condition type 'thirst_high'.  The priority compared is the dynamic     *)
(* one: times 1.1 (capped) after more successes, times 0.8 after more      *)
(* failures.  Returns the index of the procedure (0 for None) and the      *)
(* memory with last_triggered_step written.                                *)
(***************************************************************************)
ConditionMet(pr, s, perc, goals) ==
    \/ pr.ctype = "hunger_high" /\ s.hunger >= Dbl(pr.threshold)
    \/ pr.ctype = "fatigue_high" /\ s.fatigue >= Dbl(pr.threshold)
    \/ pr.ctype = "food_in_sight" /\ perc.food_in_sight /\ s.hunger > Dbl(5000)
    \/ /\ pr.ctype = "obstacle_blocking_path"
       /\ perc.obstacle_in_sight
       /\ FirstOpenOfType(goals, "reach_location") # 0

DynamicPriority(pr) ==
    IF pr.success_count > pr.failure_count /\ pr.success_count > 0
    THEN Min(Dbl(U), FMul(Dbl(pr.priority), Dbl(11000)))
    ELSE IF pr.failure_count > pr.success_count /\ pr.failure_count > 0
    THEN Max(0, FMul(Dbl(pr.priority), Dbl(8000)))
    ELSE Dbl(pr.priority)

\* lines 94-127: best_procedure, the first of the highest dynamic priority
BestProcedure(procs, s, perc, goals) ==
    FirstHighest({i \in 1..Len(procs) : ConditionMet(procs[i], s, perc, goals)},
                 [i \in 1..Len(procs) |-> DynamicPriority(procs[i])])

\* lines 129-136: the step written on the procedure returned
Triggered(procs, best, t) ==
    [index |-> best,
     procs |-> IF best = 0 THEN procs ELSE [procs EXCEPT ![best].last_triggered_step = t]]

get_triggered_procedure(procs, s, perc, goals, t) ==
    Triggered(procs, BestProcedure(procs, s, perc, goals), t)

\* ProceduralMemory.update_procedure_outcome
update_procedure_outcome(procs, i, success) ==
    IF success THEN [procs EXCEPT ![i].success_count = @ + 1]
    ELSE [procs EXCEPT ![i].failure_count = @ + 1]

(***************************************************************************)
(* Agent._think_default, "Set Attention Focus".                            *)
(***************************************************************************)
GoalFocus(type) ==
    IF type = "reach_location" THEN "location_target"
    ELSE IF type = "maintain_hunger_low" THEN "food"
    ELSE IF type = "maintain_thirst_low" THEN "water"
    ELSE IF type = "clear_path" THEN "obstacle"
    ELSE IF type = "explore_area" THEN "curiosity"
    ELSE NoFocus

SetAttentionFocus(s, em, goals, perc) ==
    IF s.hunger > Dbl(7000) THEN "food"
    ELSE IF s.thirst > Dbl(7000) THEN "water"
    ELSE IF s.fatigue > Dbl(7000) THEN "rest"
    ELSE IF em.curiosity > 6000 /\ Len(goals) = 0 THEN "curiosity"
    ELSE IF Uncompleted(goals) # {} THEN GoalFocus(goals[TopGoal(goals)].type)
    ELSE IF perc.obstacle_in_sight THEN "obstacle"
    ELSE NoFocus

(***************************************************************************)
(* ProblemSolver.process: every fifth step, marks the top goal completed   *)
(* when it is a location goal and the agent stands on its target.          *)
(***************************************************************************)
ProblemSolverProcess(goals, p, t, m) ==
    IF t - m.last_goal_check_step < 5 THEN [goals |-> goals, modules |-> m]
    ELSE LET i == TopGoal(goals)
             g2 == IF i # 0 /\ goals[i].type = "reach_location" /\ goals[i].target = p
                   THEN [goals EXCEPT ![i].completed = TRUE] ELSE goals
         IN [goals |-> g2, modules |-> [m EXCEPT !.last_goal_check_step = t]]

(***************************************************************************)
(* GoalGenerator.process and the application of its output in              *)
(* _think_default.  Rule 2 reads environment.GRID_SIZE, which the World    *)
(* object does not have: the call raises AttributeError (raised = TRUE)    *)
(* after last_generation_step has been written.                            *)
(***************************************************************************)
\* (variant: rule 1 without the look for an open food goal)
GoalGeneratorProcessUnguarded(goals, s, em, g, t, m) ==
    IF t - m.last_generation_step < 10
    THEN [goals |-> goals, modules |-> m, raised |-> FALSE]
    ELSE LET m2 == [m EXCEPT !.last_generation_step = t]
             foodGoal == Goal(<<"goal_seek_food", t>>, "maintain_hunger_low", 7500,
                              NoGoalId, NoLoc, 3000, 5)
         IN [goals |-> IF s.hunger > Dbl(6000) THEN Append(goals, foodGoal) ELSE goals,
             modules |-> m2, raised |-> FALSE]

GoalGeneratorProcess(goals, s, em, g, t, m) ==
    IF t - m.last_generation_step < 10
    THEN [goals |-> goals, modules |-> m, raised |-> FALSE]
    ELSE LET m2 == [m EXCEPT !.last_generation_step = t]
             newFood == s.hunger > Dbl(6000) /\ FirstOpenOfType(goals, "maintain_hunger_low") = 0
             rule2 == /\ em.curiosity > 7000
                      /\ FirstOpenOfType(goals, "reach_location") = 0
                      /\ FirstOpenOfType(goals, "explore_area") = 0
             cp == GoalIndex(goals, ClearObstacleId)
             modify == /\ cp # 0
                       /\ ~goals[cp].completed
                       /\ goals[cp].obstacle_location # NoLoc
                       /\ GridAt(g, goals[cp].obstacle_location) # "obstacle"
             foodGoal == Goal(<<"goal_seek_food", t>>, "maintain_hunger_low", 7500,
                              NoGoalId, NoLoc, 3000, 5)
             g1 == IF newFood /\ GoalIndex(goals, foodGoal.id) = 0
                   THEN Append(goals, foodGoal) ELSE goals
             g2 == IF modify THEN [g1 EXCEPT ![cp].completed = TRUE] ELSE g1
         IN IF rule2 THEN [goals |-> goals, modules |-> m2, raised |-> TRUE]
            ELSE [goals |-> g2, modules |-> m2, raised |-> FALSE]

(***************************************************************************)
(* DecisionMaker.decide_final_action(agent, decision_mode).                *)
(* The agent is the record a = [is, em, goals, pos, perc, wm, procs, t,    *)
(* grid]; dqn is the action q_learner.choose_action returns, coin the      *)
(* outcome of random.random() < 0.5, rmove the move random.choice picks.   *)
(* The result is the action and the goals and procedures as written.       *)
(***************************************************************************)

\* (variant of the critical override: the three checks in the order fatigue,
\* thirst, hunger)
CriticalOverrideFatigueFirst(s) ==
    IF s.fatigue > Dbl(CriticalThreshold) THEN "rest"
    ELSE IF s.thirst > Dbl(CriticalThreshold) THEN "drink_water"
    ELSE IF s.hunger > Dbl(CriticalThreshold) THEN "seek_food"
    ELSE ""

\* 1. critical needs override (lines 66-80); "" when no need is critical
CriticalOverride(s) ==
    IF s.hunger > Dbl(CriticalThreshold) THEN "seek_food"
    ELSE IF s.thirst > Dbl(CriticalThreshold) THEN "drink_water"
    ELSE IF s.fatigue > Dbl(CriticalThreshold) THEN "rest"
    ELSE ""

\* 2. procedural override threshold (line 86)
ProcThreshold(mode) == IF mode = "reactive" THEN 7000 ELSE 9000

\* lines 89-109: the action a procedure that fires stands for
ProcedureAction(a, action) ==
    IF action = "move_towards_goal"
    THEN LET i == FirstOpenOfType(a.goals, "reach_location")
         IN IF i # 0 THEN TowardRowsFirst(a.pos, a.goals[i].target, "explore")
            ELSE "explore"
    ELSE action

\* (variant: no procedure ever overrides)
ProceduralOverrideNever(a, mode, trig) == ""

\* (variant: the priority has to exceed the threshold)
ProceduralOverrideStrict(a, mode, trig) ==
    IF trig.index # 0 /\ a.procs[trig.index].priority > ProcThreshold(mode)
    THEN ProcedureAction(a, a.procs[trig.index].action)
    ELSE ""

\* lines 87-110: the base priority is compared, with >=
ProceduralOverride(a, mode, trig) ==
    IF trig.index # 0 /\ a.procs[trig.index].priority >= ProcThreshold(mode)
    THEN ProcedureAction(a, a.procs[trig.index].action)
    ELSE ""

\* 3. goal selection (lines 125-157)
PrerequisitesMet(goals, i) ==
    \A id \in goals[i].prerequisites :
        GoalIndex(goals, id) = 0 \/ goals[GoalIndex(goals, id)].completed

EffectivePriority(goals, i) ==
    LET p == GoalIndex(goals, goals[i].parent_goal_id)
    IN IF goals[i].parent_goal_id # NoGoalId /\ p # 0 /\ ~goals[p].completed
       THEN Min(Dbl(U), FAdd(Dbl(goals[i].priority), FMul(Dbl(goals[p].priority), Dbl(1000))))
       ELSE Dbl(goals[i].priority)

RelevantGoal(goals) ==
    FirstHighest({i \in Uncompleted(goals) : PrerequisitesMet(goals, i)},
                 [i \in 1..Len(goals) |-> EffectivePriority(goals, i)])

\* line 159: the id of the goal pursued, relevant being relevant_goal
PursuedId(goals, mode, relevant) ==
    IF relevant # 0 /\ mode = "deliberative" THEN goals[relevant].id ELSE NoGoalId

SelectedGoal(goals, mode) == PursuedId(goals, mode, RelevantGoal(goals))

\* first perceived obstacle inside the rectangle spanned by agent and target
BlockingObstacle(p, tgt, locs) ==
    LET inBox(o) == /\ Min(p[1], tgt[1]) <= o[1] /\ o[1] <= Max(p[1], tgt[1])
                    /\ Min(p[2], tgt[2]) <= o[2] /\ o[2] <= Max(p[2], tgt[2])
        hits == SelectSeq(locs, inBox)
    IN IF hits = <<>> THEN NoLoc ELSE Head(hits)

\* (variant: a goal reached is left open)
PursueReachLocationOpen(a, i, chosen) ==
    IF a.pos = a.goals[i].target THEN [action |-> "explore", goals |-> a.goals]
    ELSE [action |-> TowardRowsFirst(a.pos, a.goals[i].target, chosen), goals |-> a.goals]

\* lines 162-213
PursueReachLocation(a, i, chosen) ==
    LET g == a.goals[i]
        blocking == IF a.perc.obstacle_in_sight
                    THEN BlockingObstacle(a.pos, g.target, a.perc.obstacle_locations)
                    ELSE NoLoc
        cp == GoalIndex(a.goals, ClearObstacleId)
    IN IF a.pos = g.target
       THEN [action |-> "explore", goals |-> [a.goals EXCEPT ![i].completed = TRUE]]
       ELSE IF blocking # NoLoc /\ cp # 0
       THEN [action |-> IF Abs(a.pos[1] - blocking[1]) <= 1 /\ Abs(a.pos[2] - blocking[2]) <= 1
                        THEN "move_object" ELSE TowardLarger(a.pos, blocking),
             goals |-> [a.goals EXCEPT ![cp].obstacle_location = blocking,
                                       ![cp].completed = FALSE]]
       ELSE [action |-> TowardRowsFirst(a.pos, g.target, chosen), goals |-> a.goals]

\* lines 220 and 233, "need >= threshold * 0.8" (0.2 * 0.8 is
\* 0.16000000000000003, so that a need of 0.16 is below it)
ApproachesThreshold(level, threshold) == level >= FMul(Dbl(threshold), Dbl(8000))

\* (variant: completion one tick late, the counter never put back to 0)
PursueMaintainLate(a, i, chosen, level, remedy) ==
    LET g == a.goals[i]
    IN IF level < Dbl(g.threshold)
       THEN [action |-> IF ApproachesThreshold(level, g.threshold) /\ chosen # remedy
                        THEN remedy ELSE chosen,
             goals |-> [a.goals EXCEPT
                          ![i].current_duration = @ + 1,
                          ![i].completed = IF g.current_duration + 1 > g.duration_steps
                                           THEN TRUE ELSE @]]
       ELSE [action |-> chosen, goals |-> a.goals]

\* lines 215-238, the same code for hunger and for thirst
PursueMaintain(a, i, chosen, level, remedy) ==
    LET g == a.goals[i]
    IN IF level < Dbl(g.threshold)
       THEN [action |-> IF ApproachesThreshold(level, g.threshold) /\ chosen # remedy
                        THEN remedy ELSE chosen,
             goals |-> [a.goals EXCEPT
                          ![i].current_duration = @ + 1,
                          ![i].completed = IF g.current_duration + 1 >= g.duration_steps
                                           THEN TRUE ELSE @]]
       ELSE [action |-> chosen, goals |-> [a.goals EXCEPT ![i].current_duration = 0]]

\* lines 240-264
PursueClearPath(a, i, chosen) ==
    LET o == a.goals[i].obstacle_location
    IN IF o = NoLoc THEN [action |-> "explore", goals |-> a.goals]
       ELSE IF GridAt(a.grid, o) # "obstacle"
       THEN [action |-> "explore", goals |-> [a.goals EXCEPT ![i].completed = TRUE]]
       ELSE IF a.pos = o THEN [action |-> "move_object", goals |-> a.goals]
       ELSE [action |-> TowardLarger(a.pos, o), goals |-> a.goals]

\* lines 266-284
PursueExploreArea(a, i, chosen) ==
    IF a.pos = a.goals[i].target
    THEN [action |-> "explore", goals |-> [a.goals EXCEPT ![i].completed = TRUE]]
    ELSE [action |-> TowardRowsFirst(a.pos, a.goals[i].target, chosen), goals |-> a.goals]

\* lines 159-284: goals are pursued in deliberative mode only
Pursue(a, mode, chosen, i) ==
    IF i = 0 \/ mode # "deliberative" THEN [action |-> chosen, goals |-> a.goals]
    ELSE IF a.goals[i].type = "reach_location" THEN PursueReachLocation(a, i, chosen)
    ELSE IF a.goals[i].type = "maintain_hunger_low"
    THEN PursueMaintain(a, i, chosen, a.is.hunger, "seek_food")
    ELSE IF a.goals[i].type = "maintain_thirst_low"
    THEN PursueMaintain(a, i, chosen, a.is.thirst, "drink_water")
    ELSE IF a.goals[i].type = "clear_path" THEN PursueClearPath(a, i, chosen)
    ELSE IF a.goals[i].type = "explore_area" THEN PursueExploreArea(a, i, chosen)
    ELSE [action |-> chosen, goals |-> a.goals]

GoalPursuit(a, mode, chosen) == Pursue(a, mode, chosen, RelevantGoal(a.goals))

\* line 328-354: the newest working-memory item that is a recent sighting of
\* food or water away from the agent decides; 0 if there is none
RecalledItem(a) ==
    LET hit == {k \in 1..Len(a.wm) :
                   /\ a.wm[k].type \in {"perceived_food", "perceived_water"}
                   /\ a.t - a.wm[k].time <= 3
                   /\ a.pos # a.wm[k].location}
    IN IF hit = {} THEN 0 ELSE CHOOSE k \in hit : \A j \in hit : j <= k

\* 4. semantic memory refinement (lines 289-326): the facts the constructor
\* stores about food, water, rest and shelter are all present
RefineSemantic(a, chosen) ==
    LET c1 == IF a.is.hunger > Dbl(6000) /\ a.perc.food_in_sight
                 /\ chosen \notin ({"seek_food", "move_object"} \cup Moves)
              THEN "seek_food" ELSE chosen
        c2 == IF a.is.thirst > Dbl(6000) /\ a.perc.water_in_sight
                 /\ c1 \notin ({"drink_water", "move_object"} \cup Moves)
              THEN "drink_water" ELSE c1
        c3 == IF a.is.fatigue > Dbl(6000) /\ c2 # "rest" THEN "rest" ELSE c2
    IN IF a.perc.current_weather = "stormy" /\ c3 # "rest" THEN "rest" ELSE c3

\* working memory recall (lines 328-354)
RefineRecall(a, chosen) ==
    LET k == RecalledItem(a)
        own == IF k # 0 /\ a.wm[k].type = "perceived_food" THEN "seek_food" ELSE "drink_water"
    IN IF k # 0 /\ chosen \notin ({own, "move_object"} \cup Moves)
       THEN TowardLarger(a.pos, a.wm[k].location) ELSE chosen

\* 4. semantic and working memory refinement (lines 288-354), deliberative only
Refine(a, mode, chosen) ==
    IF mode = "deliberative" THEN RefineRecall(a, RefineSemantic(a, chosen)) ELSE chosen

\* 5. weather, curiosity and social modifiers (lines 356-381); hadOpenGoals is
\* the list of uncompleted goals as it was before the goals were pursued
Modifiers(a, mode, chosen, hadOpenGoals, coin, rmove) ==
    LET w == a.perc.current_weather
        c1 == IF w = "stormy" /\ chosen # "rest" THEN "rest"
              ELSE IF w = "rainy" /\ chosen = "explore" /\ coin
              THEN (IF a.is.fatigue < Dbl(8000) THEN "rest" ELSE "seek_food")
              ELSE chosen
        c2 == IF /\ a.em.curiosity > 6000
                 /\ a.is.hunger < Dbl(7000) /\ a.is.fatigue < Dbl(7000)
                 /\ a.is.thirst < Dbl(7000)
                 /\ ~hadOpenGoals
                 /\ mode = "deliberative"
                 /\ c1 \notin ({"explore", "move_object"} \cup Moves)
              THEN rmove ELSE c1
    IN IF a.perc.other_agents_in_sight /\ a.is.hunger > Dbl(5000) /\ c2 = "explore"
       THEN "seek_food" ELSE c2

\* line 114, q_learner.choose_action(hunger=, fatigue=, thirst=): the outcome
\* of the call when the learner's choose_action has no thirst parameter
TypeErrorRaised == "TypeError"

\* dqn is what the call of line 114 gave: an action, or TypeErrorRaised, which
\* leaves decide_final_action with the goals untouched and nothing returned
\* the decision, given the critical action, the procedure that fired, the
\* action it stands for and what pursuing the goal gave
Decision(a, mode, dqn, coin, rmove, critical, trig, procAction, pursued) ==
    IF critical # ""
    THEN [action |-> critical, goals |-> a.goals, procs |-> a.procs, stage |-> "critical",
          selected |-> NoGoalId, raised |-> FALSE]
    ELSE IF procAction # ""
    THEN [action |-> procAction, goals |-> a.goals, procs |-> trig.procs,
          stage |-> "procedure", selected |-> NoGoalId, raised |-> FALSE]
    ELSE IF dqn = TypeErrorRaised
    THEN [action |-> "", goals |-> a.goals, procs |-> trig.procs, stage |-> "learner",
          selected |-> NoGoalId, raised |-> TRUE]
    ELSE [action |-> Modifiers(a, mode, Refine(a, mode, pursued.action),
                               Uncompleted(a.goals) # {}, coin, rmove),
          goals |-> pursued.goals, procs |-> trig.procs,
          stage |-> "arbitration", selected |-> SelectedGoal(a.goals, mode),
          raised |-> FALSE]

DecisionAfter(a, mode, dqn, coin, rmove, trig) ==
    Decision(a, mode, dqn, coin, rmove, CriticalOverride(a.is), trig,
             ProceduralOverride(a, mode, trig), GoalPursuit(a, mode, dqn))

decide_final_action(a, mode, dqn, coin, rmove) ==
    DecisionAfter(a, mode, dqn, coin, rmove,
                  get_triggered_procedure(a.procs, a.is, a.perc, a.goals, a.t))

(***************************************************************************)
(* Agent.think: the transition guards, in the order of the if/elif chain   *)
(* (lines 661-679), as predicates of the agent's state.                    *)
(***************************************************************************)
\* (variant: falling asleep only from Awake)
GuardFallAsleepFromAwake(s, st, focus, goals) == s.fatigue > Dbl(SleepThreshold) /\ st = "Awake"
GuardFallAsleep(s, st, focus, goals) == s.fatigue > Dbl(SleepThreshold) /\ st # "Asleep"
GuardWakeUp(s, st, focus, goals) == s.fatigue < Dbl(WakeThreshold) /\ st = "Asleep"
GuardFocusFood(s, st, focus, goals) == s.hunger > Dbl(FocusThreshold) /\ st # "Focused"
GuardFocusWater(s, st, focus, goals) == s.thirst > Dbl(FocusThreshold) /\ st # "Focused"
GuardLeaveFood(s, st, focus, goals) ==
    s.hunger < Dbl(FoodFocusExit) /\ st = "Focused" /\ focus = "food"
GuardLeaveWater(s, st, focus, goals) ==
    s.thirst < Dbl(WaterFocusExit) /\ st = "Focused" /\ focus = "water"
GuardLeaveLocation(s, st, focus, goals) ==
    st = "Focused" /\ focus = "location_target" /\ FirstOpenOfType(goals, "reach_location") = 0

\* the names of the guards that hold
GuardsHolding(s, st, focus, goals) ==
    {n \in {"fall_asleep", "wake_up", "focus_food", "focus_water",
            "leave_food_focus", "leave_water_focus", "leave_location_focus"} :
        \/ n = "fall_asleep" /\ GuardFallAsleep(s, st, focus, goals)
        \/ n = "wake_up" /\ GuardWakeUp(s, st, focus, goals)
        \/ n = "focus_food" /\ GuardFocusFood(s, st, focus, goals)
        \/ n = "focus_water" /\ GuardFocusWater(s, st, focus, goals)
        \/ n = "leave_food_focus" /\ GuardLeaveFood(s, st, focus, goals)
        \/ n = "leave_water_focus" /\ GuardLeaveWater(s, st, focus, goals)
        \/ n = "leave_location_focus" /\ GuardLeaveLocation(s, st, focus, goals)}

\* (variant: the chain with the two focus branches ahead of the sleep branches)
TransitionBranchNeedsFirst(s, st, focus, goals) ==
    IF GuardFocusFood(s, st, focus, goals) THEN "focus_food"
    ELSE IF GuardFocusWater(s, st, focus, goals) THEN "focus_water"
    ELSE IF GuardFallAsleep(s, st, focus, goals) THEN "fall_asleep"
    ELSE IF GuardWakeUp(s, st, focus, goals) THEN "wake_up"
    ELSE IF GuardLeaveFood(s, st, focus, goals) THEN "leave_food_focus"
    ELSE IF GuardLeaveWater(s, st, focus, goals) THEN "leave_water_focus"
    ELSE IF GuardLeaveLocation(s, st, focus, goals) THEN "leave_location_focus"
    ELSE "none"

\* the branch of the chain that is taken: the first whose guard holds
TransitionBranch(s, st, focus, goals) ==
    IF GuardFallAsleep(s, st, focus, goals) THEN "fall_asleep"
    ELSE IF GuardWakeUp(s, st, focus, goals) THEN "wake_up"
    ELSE IF GuardFocusFood(s, st, focus, goals) THEN "focus_food"
    ELSE IF GuardFocusWater(s, st, focus, goals) THEN "focus_water"
    ELSE IF GuardLeaveFood(s, st, focus, goals) THEN "leave_food_focus"
    ELSE IF GuardLeaveWater(s, st, focus, goals) THEN "leave_water_focus"
    ELSE IF GuardLeaveLocation(s, st, focus, goals) THEN "leave_location_focus"
    ELSE "none"

BranchTarget(branch) ==
    IF branch = "fall_asleep" THEN "Asleep"
    ELSE IF branch \in {"focus_food", "focus_water"} THEN "Focused"
    ELSE "Awake"

\* attention_focus as assigned by the branch before it calls transition_to_state
BranchFocus(branch, focus) ==
    IF branch = "focus_food" THEN "food"
    ELSE IF branch = "focus_water" THEN "water"
    ELSE focus

(***************************************************************************)
(* Agent.transition_to_state(new_state): nothing happens when the target   *)
(* is the current state; otherwise exit() of the old state, the switch,    *)
(* enter() of the new one.  AsleepState.enter clears attention_focus; the  *)
(* other hooks only write the monologue.                                   *)
(***************************************************************************)
\* (variant: without the early return for new_state = current state)
transition_to_state_unguarded(st, focus, new) ==
    [state |-> new,
     focus |-> IF new = "Asleep" THEN NoFocus ELSE focus,
     hooks |-> << <<"exit", st>>, <<"enter", new>> >>]

transition_to_state(st, focus, new) ==
    IF st = new THEN [state |-> st, focus |-> focus, hooks |-> <<>>]
    ELSE [state |-> new,
          focus |-> IF new = "Asleep" THEN NoFocus ELSE focus,
          hooks |-> << <<"exit", st>>, <<"enter", new>> >>]

\* the transition check of Agent.think as a whole
Transition(st, focus, branch) ==
    IF branch = "none" THEN [state |-> st, focus |-> focus, hooks |-> <<>>]
    ELSE transition_to_state(st, BranchFocus(branch, focus), BranchTarget(branch))

TransitionCheck(s, st, focus, goals) ==
    Transition(st, focus, TransitionBranch(s, st, focus, goals))

(***************************************************************************)
(* FocusedState.think: overrides applied to the action _think_default      *)
(* returned (lines 86-153).                                                *)
(***************************************************************************)
\* newest sighting of the kind, at most 5 steps old, away from the agent; 0 if none
FocusRecall(wm, kind, p, t) ==
    LET hit == {k \in 1..Len(wm) :
                   wm[k].type = kind /\ t - wm[k].time <= 5 /\ wm[k].location # p}
    IN IF hit = {} THEN 0 ELSE CHOOSE k \in hit : \A j \in hit : j <= k

FocusNeedOverride(selected, remedy, kind, wm, p, t) ==
    IF ~StartsWithMove(selected) THEN remedy
    ELSE LET k == FocusRecall(wm, kind, p, t)
         IN IF k # 0 THEN TowardFocused(p, wm[k].location) ELSE remedy

FocusedOverride(selected, focus, s, goals, wm, p, t) ==
    IF focus = "food" /\ s.hunger > Dbl(3000)
    THEN FocusNeedOverride(selected, "seek_food", "perceived_food", wm, p, t)
    ELSE IF focus = "water" /\ s.thirst > Dbl(3000)
    THEN FocusNeedOverride(selected, "drink_water", "perceived_water", wm, p, t)
    ELSE IF focus = "location_target"
    THEN LET i == FirstOpenOfType(goals, "reach_location")
         IN IF i # 0 /\ goals[i].target # p THEN TowardFocused(p, goals[i].target)
            ELSE selected
    ELSE selected

(***************************************************************************)
(* Agent._think_default(decision_mode) (lines 502-644): needs, emotions,   *)
(* attention focus, cognitive modules, procedural memory, arbiter.         *)
(***************************************************************************)
\* lines 519-608, s1 being the needs as internal_state.update (line 516) left them
ThinkPreludeAfter(s1) ==
    LET em1 == UpdateEmotions(s1)
        ps == ProblemSolverProcess(active_goals, pos, current_time_step, modules)
        gg == GoalGeneratorProcess(ps.goals, s1, em1, grid, current_time_step, ps.modules)
        trig == get_triggered_procedure(procedures, s1, perception, gg.goals, current_time_step)
    IN [is |-> s1, em |-> em1,
        focus |-> SetAttentionFocus(s1, em1, active_goals, perception),
        goals |-> gg.goals, modules |-> gg.modules, raised |-> gg.raised,
        procs |-> IF gg.raised THEN procedures ELSE trig.procs]

ThinkPrelude ==
    ThinkPreludeAfter(Update(internal_state, IF perception.time_of_day = "night" THEN 15 ELSE 10))

\* the agent as the arbiter reads it once the prelude has run
ArbiterInput(pre) ==
    [is |-> pre.is, em |-> pre.em, goals |-> pre.goals, pos |-> pos,
     perc |-> perception, wm |-> working_memory_buffer, procs |-> pre.procs,
     t |-> current_time_step, grid |-> grid]

\* what _think_default leaves behind, d being the arbiter's decision; the
\* arbiter is not reached when GoalGenerator raised, and what the arbiter
\* raises passes through _think_default
ThinkDefaultResult(pre, d) ==
    IF pre.raised
    THEN [is |-> pre.is, em |-> pre.em, focus |-> pre.focus, goals |-> pre.goals,
          procs |-> pre.procs, modules |-> pre.modules, action |-> "", stage |-> "",
          selected |-> NoGoalId, raised |-> TRUE]
    ELSE [is |-> pre.is, em |-> pre.em, focus |-> pre.focus, goals |-> d.goals,
          procs |-> d.procs, modules |-> pre.modules, action |-> d.action,
          stage |-> d.stage, selected |-> d.selected, raised |-> d.raised]

ThinkDefault(pre, mode, dqn, coin, rmove) ==
    ThinkDefaultResult(pre, decide_final_action(ArbiterInput(pre), mode, dqn, coin, rmove))

\* (variant: a sleeping agent that thinks of exploring)
AsleepThinkExplore == "explore"
\* (variant: an action of its own for sleeping)
AsleepThinkSleep == "sleep"

\* AsleepState.think: the action returned, nothing else is run
AsleepThink == "rest"

\* AwakeState.think and FocusedState.think: the mode handed to _think_default
AwakeMode(s) == "deliberative"
FocusedMode(s) == "deliberative"

\* The object bound to agent.q_learner.  The constructor binds a DQNLearner
\* (AgentLearner below, built with state_size=3), whose choose_action(hunger,
\* fatigue) has no thirst parameter: the arbiter's call, which passes thirst
\* as well (decision_maker.py line 114), raises TypeError on it.  A caller
\* may bind a learner whose choose_action takes the three needs.
TakesThirst(l) == "takes_thirst" \in DOMAIN l /\ l.takes_thirst

\* q_learner.choose_action may return any action of its list.  The arbiter
\* overwrites the suggestion unread when it pursues a goal whose every branch
\* assigns the action; one suggestion then stands for all of them.
AssignedByGoal(goals, relevant) ==
    relevant # 0 /\ goals[relevant].type \in {"reach_location", "clear_path", "explore_area"}

SuggestionOverwritten(goals, mode) ==
    mode = "deliberative" /\ AssignedByGoal(goals, RelevantGoal(goals))

LearnerOutcomes(l, goals, mode) ==
    IF ~TakesThirst(l) THEN {TypeErrorRaised}
    ELSE IF SuggestionOverwritten(goals, mode) THEN {"explore"} ELSE Actions

\* outcomes of random.random() < 0.5 and random.choice that the arbiter can read
CoinOutcomes == IF perception.current_weather = "rainy" THEN BOOLEAN ELSE {FALSE}
\* (the modules complete at most two goals before the arbiter runs)
MoveOutcomes == IF Cardinality(Uncompleted(active_goals)) <= 2 THEN Moves ELSE {"move_up"}

\* the tick of a sleeping agent: AsleepState.think returns, nothing else runs
AsleepStateThink(chk, seen) ==
    /\ attention_focus' = chk.focus
    /\ pending' = AsleepThink
    /\ last_think' = seen @@ [mode |-> "", decision |-> "", stage |-> "",
                              decide_is |-> internal_state, result |-> AsleepThink,
                              raised |-> FALSE]
    /\ UNCHANGED <<internal_state, emotion_state, active_goals, procedures, modules,
                   last_decide>>

\* AwakeState.think / FocusedState.think: r is what _think_default(mode) left
\* behind; FocusedState.think then applies its overrides to the action
StateThink(chk, seen, mode, r) ==
    LET result == IF r.raised THEN pending
                  ELSE IF chk.state = "Focused"
                  THEN FocusedOverride(r.action, r.focus, r.is, r.goals,
                                       working_memory_buffer, pos, current_time_step)
                  ELSE r.action
    IN /\ internal_state' = r.is
       /\ emotion_state' = r.em
       /\ attention_focus' = r.focus
       /\ active_goals' = r.goals
       /\ procedures' = r.procs
       /\ modules' = r.modules
       /\ pending' = result
       /\ last_decide' = IF r.stage = "" THEN last_decide
                         ELSE [mode |-> mode, is |-> r.is, action |-> r.action,
                               stage |-> r.stage, selected |-> r.selected]
       /\ last_think' = seen @@ [mode |-> mode, decision |-> r.action,
                                 stage |-> r.stage, decide_is |-> r.is,
                                 result |-> result, raised |-> r.raised]

(***************************************************************************)
(* Agent.think (lines 652-691): transition check, then the think() of the  *)
(* state the agent is in after the check.  last_think records what the     *)
(* call saw and did.                                                       *)
(***************************************************************************)
\* what the call saw: the state it found and what the check made of it
Seen(chk) ==
    [pre_state |-> current_consciousness_state,
     pre_focus |-> attention_focus,
     pre_cause |-> focus_cause,
     eval |-> internal_state,
     guards |-> GuardsHolding(internal_state, current_consciousness_state,
                              attention_focus, active_goals),
     post_state |-> chk.state,
     post_focus |-> chk.focus,
     hooks |-> chk.hooks]

\* think() of an Awake or Focused agent, pre being what _think_default has
\* done before it calls the arbiter
WakingThink(chk, seen, mode, pre) ==
    \E dqn \in LearnerOutcomes(q_learner, pre.goals, mode) :
    \E coin \in CoinOutcomes : \E rmove \in MoveOutcomes :
       StateThink(chk, seen, mode, ThinkDefault(pre, mode, dqn, coin, rmove))

\* lines 681-691, chk being the outcome of the transition check
ThinkAfterCheck(chk, seen) ==
    /\ current_consciousness_state' = chk.state
    /\ focus_cause' = IF chk.state # "Focused" THEN "none"
                      ELSE IF current_consciousness_state = "Focused" THEN focus_cause
                      ELSE IF chk.focus = "food" THEN "hunger" ELSE "thirst"
    /\ op' = "think"
    /\ IF chk.state = "Asleep"
       THEN AsleepStateThink(chk, seen)
       ELSE WakingThink(chk, seen,
                        IF chk.state = "Awake" THEN AwakeMode(internal_state)
                        ELSE FocusedMode(internal_state),
                        ThinkPrelude)

ThinkChecked(chk) == ThinkAfterCheck(chk, Seen(chk))

AgentThink ==
    ThinkChecked(TransitionCheck(internal_state, current_consciousness_state,
                                 attention_focus, active_goals))

(***************************************************************************)
(* Agent._act_default(action) (lines 702-883).  The effect of the action   *)
(* is [is, grid, pos, reward, success]; rewards are in hundredths.  The    *)
(* movement branch tests action.startswith("move_") (line 780) and so      *)
(* takes 'move_object' as well, as a move to the agent's own cell; the     *)
(* branch for 'move_object' (line 814) comes after it in the chain.        *)
(***************************************************************************)
MoveTarget(p, action) ==
    IF action = "move_up" THEN <<p[1] - 1, p[2]>>
    ELSE IF action = "move_down" THEN <<p[1] + 1, p[2]>>
    ELSE IF action = "move_left" THEN <<p[1], p[2] - 1>>
    ELSE IF action = "move_right" THEN <<p[1], p[2] + 1>>
    ELSE p

\* World.move_object_at_position
CanMoveObject(g, from, to) ==
    /\ InGrid(from) /\ GridAt(g, from) = "obstacle"
    /\ InGrid(to) /\ GridAt(g, to) = "empty"
    /\ Abs(from[1] - to[1]) + Abs(from[2] - to[2]) = 1

\* right, down, left, up: the first neighbour the obstacle can go to
ObjectDestinations(p) ==
    << <<p[1], p[2] + 1>>, <<p[1] + 1, p[2]>>, <<p[1], p[2] - 1>>, <<p[1] - 1, p[2]>> >>

\* (variant: moves carried out without looking at the target cell)
ActionEffectUnchecked(action, s, g, p) ==
    IF action \in Moves
    THEN [is |-> s, grid |-> g, pos |-> MoveTarget(p, action), reward |-> -1, success |-> TRUE]
    ELSE [is |-> s, grid |-> g, pos |-> p, reward |-> -20, success |-> FALSE]

ActionEffect(action, s, g, p) ==
    LET same == [is |-> s, grid |-> g, pos |-> p]
    IN IF action = "seek_food"
       THEN IF GridAt(g, p) = "food"
            THEN [is |-> [s EXCEPT !.hunger = Clamp(FSubFloor(@, Dbl(7000)))],
                  grid |-> [g EXCEPT !.food = @ \ {p}], pos |-> p,
                  reward |-> 50, success |-> TRUE]
            ELSE [is |-> [s EXCEPT !.hunger = Clamp(FAdd(@, Dbl(200)))], grid |-> g, pos |-> p,
                  reward |-> -10, success |-> FALSE]
       ELSE IF action = "drink_water"
       THEN IF GridAt(g, p) = "water"
            THEN [is |-> [s EXCEPT !.thirst = FSubFloor(@, Dbl(8000))],
                  grid |-> [g EXCEPT !.water = @ \ {p}], pos |-> p,
                  reward |-> 60, success |-> TRUE]
            ELSE [is |-> [s EXCEPT !.thirst = Min(Dbl(U), FAdd(@, Dbl(300)))], grid |-> g, pos |-> p,
                  reward |-> -15, success |-> FALSE]
       ELSE IF action = "rest"
       THEN [is |-> [s EXCEPT !.fatigue = Clamp(FSubFloor(@, Dbl(6000)))], grid |-> g, pos |-> p,
             reward |-> 40, success |-> TRUE]
       ELSE IF action = "explore"
       THEN [is |-> [hunger |-> Clamp(FAdd(s.hunger, Dbl(500))),
                     fatigue |-> Clamp(FAdd(s.fatigue, Dbl(500))),
                     thirst |-> Min(Dbl(U), FAdd(s.thirst, Dbl(500)))],
             grid |-> g, pos |-> p, reward |-> -5, success |-> FALSE]
       ELSE IF StartsWithMove(action)
       THEN LET np == MoveTarget(p, action)
            IN IF InGrid(np) /\ GridAt(g, np) # "obstacle"
               THEN [is |-> s, grid |-> g, pos |-> np, reward |-> -1, success |-> TRUE]
               ELSE same @@ [reward |-> -10, success |-> FALSE]
       ELSE IF action = "move_object"
       THEN LET ok(d) == CanMoveObject(g, p, d)
                dests == SelectSeq(ObjectDestinations(p), ok)
            IN IF dests # <<>>
               THEN [is |-> s,
                     grid |-> [g EXCEPT !.obstacle = (@ \ {p}) \cup {Head(dests)}],
                     pos |-> p, reward |-> 30, success |-> TRUE]
               ELSE same @@ [reward |-> -20, success |-> FALSE]
       ELSE same @@ [reward |-> -20, success |-> FALSE]

(***************************************************************************)
(* Agent._act_default as a whole: procedure bookkeeping, the effect, the   *)
(* needs update, and then the call reward_learner.update(...) of lines     *)
(* 851-857, which passes five arguments to a method that takes three       *)
(* (reward_learner.py line 21) and raises TypeError, for every action and  *)
(* whatever is bound to q_learner.  With a reward learner that took the    *)
(* five, line 864 would raise TypeError as well: it subscripts the         *)
(* snapshot, an InternalState object.  q_learner.update, the episodic      *)
(* record and the step counter (lines 861-883) are never reached, and      *)
(* last_action_reward holds the reward the action branch assigned.         *)
(***************************************************************************)
\* the exception _act_default ends in
ActError(l, action) == TypeErrorRaised

\* what the call leaves behind, trig being the procedure that fired and e
\* the effect of the action
ActDefaultOutcome(action, trig, e) ==
    /\ procedures' = IF trig.index # 0 /\ procedures[trig.index].action = action
                     THEN update_procedure_outcome(trig.procs, trig.index, e.success)
                     ELSE trig.procs
    /\ internal_state' = Update(e.is, 10)
    /\ grid' = e.grid
    /\ pos' = e.pos
    /\ last_action_reward' = e.reward
    /\ UNCHANGED <<emotion_state, learner, episodic, current_time_step>>

ActDefault(action) ==
    ActDefaultOutcome(action,
                      get_triggered_procedure(procedures, internal_state, perception,
                                              active_goals, current_time_step),
                      ActionEffect(action, internal_state, grid, pos))

(***************************************************************************)
(* AsleepState.act(action) (lines 76-105): deep rest for "rest", a partial *)
(* rest for any other action; then the needs update and the emotions.  No  *)
(* learner update, no episodic record, no step counter.                    *)
(***************************************************************************)
\* (variant: the deep rest whatever the action)
AsleepRestAmountUniform(action) == 7000
\* (variant: the light rest whatever the action)
AsleepRestAmountLight(action) == 2000
AsleepRestAmount(action) == IF action = "rest" THEN 7000 ELSE 2000
AsleepReward(action) == IF action = "rest" THEN 60 ELSE 10

AsleepEffect(action, s) ==
    Update([s EXCEPT !.fatigue = Clamp(FSubFloor(@, Dbl(AsleepRestAmount(action))))], 10)

AsleepActOutcome(action, rested) ==
    /\ internal_state' = rested
    /\ last_action_reward' = AsleepReward(action)
    /\ emotion_state' = UpdateEmotions(rested)
    /\ UNCHANGED <<procedures, grid, pos, learner, episodic, current_time_step>>

AsleepAct(action) == AsleepActOutcome(action, AsleepEffect(action, internal_state))

\* Agent.act: delegates to the current consciousness state
AgentAct(action) ==
    /\ IF current_consciousness_state = "Asleep" THEN AsleepAct(action) ELSE ActDefault(action)
    /\ op' = "act"
    /\ last_act' = [state |-> current_consciousness_state, action |-> action,
                    pre |-> internal_state, pre_pos |-> pos,
                    raised |-> current_consciousness_state # "Asleep",
                    error |-> IF current_consciousness_state = "Asleep" THEN ""
                              ELSE ActError(q_learner, action)]

(***************************************************************************)
(* World.update_environment (lines 169-222).  While fewer than             *)
(* MAX_FOOD_ITEMS food items lie on the grid, the loop takes the cells row *)
(* by row and draws random.random() for every empty one; a draw below      *)
(* FOOD_SPAWN_CHANCE puts food on the cell, and the loop ends when the     *)
(* maximum is reached.  Water likewise, on the grid the food loop left.    *)
(* While fewer than MAX_OBSTACLES obstacles stand, one more draw decides   *)
(* whether a cell is drawn (random.randint twice), and the cell takes an   *)
(* obstacle when it is empty and no agent stands on it.  The draws are the *)
(* inputs: hits is the set of cells whose draw, if made, is below the      *)
(* chance, and drawn holds the cell drawn for the obstacle, if any.  Day   *)
(* for time_step % 10 < 5; new weather when time_step % 20 = 0.            *)
(***************************************************************************)
MAX_OBSTACLES == 2
WEATHER_TYPES == {"sunny", "rainy", "stormy"}

\* the place of a cell in the order of the two loops, for r ... for c
ScanIndex(c) == c[1] * GRID_SIZE + c[2]

\* the first n cells of S in the order of the loops
RECURSIVE FirstInScan(_, _)
FirstInScan(S, n) ==
    IF n <= 0 \/ S = {} THEN {}
    ELSE LET c == CHOOSE c \in S : \A d \in S : ScanIndex(c) <= ScanIndex(d)
         IN {c} \cup FirstInScan(S \ {c}, n - 1)

\* lines 175-185 and 189-199: the cells the loop fills, the empty cells
\* that hit, in loop order, until the count is max
Spawn(g, kind, hits, max) ==
    FirstInScan({c \in hits \cap Cells : GridAt(g, c) = "empty"}, max - Cardinality(g[kind]))

\* lines 203-211
SpawnObstacle(g, drawn, agents) ==
    IF Cardinality(g.obstacle) < MAX_OBSTACLES
    THEN {c \in drawn \cap Cells : GridAt(g, c) = "empty" /\ c \notin agents}
    ELSE {}

EmptyCells(g) == {c \in Cells : GridAt(g, c) = "empty"}

\* the subsets of S of at most n elements
RECURSIVE UpTo(_, _)
UpTo(S, n) ==
    IF n <= 0 THEN {{}}
    ELSE LET less == UpTo(S, n - 1) IN less \cup {T \cup {c} : T \in less, c \in S}

\* The draws of one loop.  Every empty cell has its own draw, made as long
\* as the count is below max, so the hits that are made are any set of at
\* most max - count empty cells: each of these sets is a draw explored, and
\* so is the draw in which every cell hits.
SpawnDraws(g, kind, max) == UpTo(EmptyCells(g), max - Cardinality(g[kind])) \cup {Cells}

\* for the obstacle no cell or any cell of the grid
ObstacleDraws == {{}} \cup {{c} : c \in Cells}

update_environment ==
    \E food \in {Spawn(grid, "food", f, MAX_FOOD_ITEMS) :
                    f \in SpawnDraws(grid, "food", MAX_FOOD_ITEMS)} :
    \E water \in {Spawn([grid EXCEPT !.food = @ \cup food], "water", w, MAX_WATER_ITEMS) :
                     w \in SpawnDraws([grid EXCEPT !.food = @ \cup food], "water",
                                      MAX_WATER_ITEMS)} :
    \E obstacle \in {SpawnObstacle([grid EXCEPT !.food = @ \cup food, !.water = @ \cup water],
                              o, {pos} \cup RosterPositions) : o \in ObstacleDraws} :
    \E wt \in (IF world.time_step % 20 = 0 THEN WEATHER_TYPES ELSE {world.current_weather}) :
       /\ world' = [time_step |-> world.time_step,
                    time_of_day |-> IF world.time_step % 10 < 5 THEN "day" ELSE "night",
                    current_weather |-> wt]
       /\ grid' = [food |-> grid.food \cup food, water |-> grid.water \cup water,
                   obstacle |-> grid.obstacle \cup obstacle]

(***************************************************************************)
(* The value learner, src/core/learning/dqn_learner.py.  A network is its   *)
(* state dict: the six parameter tensors of the three linear layers, each  *)
(* with its shape and its values.  The values of a tensor are abstract: a  *)
(* number stands for one assignment of floats, the constructor's draw      *)
(* being an argument of the constructor, and every optimizer step leaves   *)
(* the policy network with values no tensor held before (q_trace.fresh     *)
(* numbers them).  epsilon, epsilon_min and the decay rate are in          *)
(* thousandths.  q_learner is the DQNLearner object, model_file the file   *)
(* save_model writes and load_model reads, q_trace what the calls so far   *)
(* did: the number of update calls that returned, every transition pushed, *)
(* in order, the learner as it was when save_model last wrote the file,    *)
(* and, right after a second learner was constructed to load the file,     *)
(* that learner before and after its load_model.                           *)
(***************************************************************************)
EpsScale == 1000

\* the parameters of a DQNetwork in the order of its state dict (lines 28-32)
StateDictKeys == <<"fc1.weight", "fc1.bias", "fc2.weight", "fc2.bias", "fc3.weight", "fc3.bias">>

\* DQNetwork.__init__(state_size, action_size): Linear(state_size, 64),
\* Linear(64, 128), Linear(128, action_size); weights are the values the
\* initialisation drew
DQNetwork(state_size, action_size, weights) ==
    LET shape == [k \in {StateDictKeys[i] : i \in DOMAIN StateDictKeys} |->
                     CASE k = "fc1.weight" -> <<64, state_size>>
                       [] k = "fc1.bias" -> <<64>>
                       [] k = "fc2.weight" -> <<128, 64>>
                       [] k = "fc2.bias" -> <<128>>
                       [] k = "fc3.weight" -> <<action_size, 128>>
                       [] OTHER -> <<action_size>>]
    IN [k \in DOMAIN shape |-> [shape |-> shape[k], data |-> weights]]

\* torch.save(net.state_dict(), filepath) (line 289): the file lists the
\* tensors by name in the order of the state dict
torch_save(net) ==
    [kind |-> "state_dict",
     entries |-> [i \in DOMAIN StateDictKeys |->
                     [key |-> StateDictKeys[i], shape |-> net[StateDictKeys[i]].shape,
                      data |-> net[StateDictKeys[i]].data]]]

\* torch.load(filepath) (line 302) of a file that holds a state dict: the
\* tensors by name
torch_load(file) ==
    [k \in {file.entries[i].key : i \in DOMAIN file.entries} |->
        LET e == file.entries[CHOOSE i \in DOMAIN file.entries : file.entries[i].key = k]
        IN [shape |-> e.shape, data |-> e.data]]

\* Module.load_state_dict(state_dict) (lines 140, 278, 302, 304): every
\* parameter whose name is in the dict with the parameter's shape takes the
\* dict's values; afterwards RuntimeError is raised if a shape did not match
\* or a name is missing or unexpected
load_state_dict(net, state_dict) ==
    [net |-> [k \in DOMAIN net |->
                 IF k \in DOMAIN state_dict /\ state_dict[k].shape = net[k].shape
                 THEN state_dict[k] ELSE net[k]],
     raised |-> \/ DOMAIN state_dict # DOMAIN net
                \/ \E k \in DOMAIN net \cap DOMAIN state_dict :
                      state_dict[k].shape # net[k].shape]

\* optimizer.step() (line 273) on the parameters of a network
OptimizerStep(net, fresh) == [k \in DOMAIN net |-> [net[k] EXCEPT !.data = fresh]]

\* no file at the path; a file torch.load cannot read
NoFile == [kind |-> "none", entries |-> <<>>]
CorruptFile == [kind |-> "corrupt", entries |-> <<>>]

\* DQNLearner.get_state_representation(hunger, fatigue): the two-element vector
get_state_representation(hunger, fatigue) == <<hunger, fatigue>>

\* action_to_idx (line 152): the position of the action in the list, from 0;
\* -1 stands for the KeyError of an action outside the list
action_to_idx(actions, action) ==
    IF \E i \in 1..Len(actions) : actions[i] = action
    THEN (CHOOSE i \in 1..Len(actions) : actions[i] = action) - 1
    ELSE -1

\* (variant: a full buffer refuses the new transition)
ReplayBuffer_push_keep_oldest(buffer, maxlen, item) ==
    IF Len(buffer) < maxlen THEN Append(buffer, item) ELSE buffer

\* ReplayBuffer.push on deque(maxlen=capacity): append on the right, and a
\* full deque drops its leftmost item
ReplayBuffer_push(buffer, maxlen, item) ==
    IF maxlen = 0 THEN <<>>
    ELSE IF Len(buffer) < maxlen THEN Append(buffer, item)
    ELSE Append(Tail(buffer), item)

\* DQNLearner.__init__
DQNLearner_init(actions, state_size, eps, eps_min, decay, capacity, batch_size, frequency, weights) ==
    [actions |-> actions, state_size |-> state_size,
     epsilon |-> eps, epsilon_min |-> eps_min,
     epsilon_decay_rate |-> decay,
     policy_net |-> DQNetwork(state_size, Len(actions), weights),
     target_net |-> DQNetwork(state_size, Len(actions), weights),
     replay_buffer |-> <<>>, capacity |-> capacity,
     batch_size |-> batch_size, target_update_frequency |-> frequency,
     update_count |-> 0]

\* (variant: epsilon decays below epsilon_min)
DecayedEpsilonUnbounded(l) == (l.epsilon * l.epsilon_decay_rate) \div EpsScale

\* line 230: epsilon = max(epsilon_min, epsilon * epsilon_decay_rate)
DecayedEpsilon(l) == Max(l.epsilon_min, (l.epsilon * l.epsilon_decay_rate) \div EpsScale)

\* (variant: the first update trains whatever the buffer holds)
TooFewSamplesNever(l) == FALSE

\* line 233: the guard before training
TooFewSamples(l) == Len(l.replay_buffer) < l.batch_size

\* (variant: the target network follows the optimizer as well)
TargetAfterStepTrained(l, fresh) == OptimizerStep(l.target_net, fresh)

\* lines 257-258: the target network is only read, under torch.no_grad()
TargetAfterStep(l, fresh) == l.target_net

\* (variant: a sync every second time the counter says so)
SyncDueHalved(l) == l.update_count % (2 * l.target_update_frequency) = 0

\* line 277
SyncDue(l) == l.update_count % l.target_update_frequency = 0

\* DQNetwork.forward on vectors of n elements (line 44): fc1 is
\* Linear(state_size, 64) and raises RuntimeError on any other width
ForwardRaises(net, n) == net["fc1.weight"].shape # <<64, n>>

\* lines 253-279 on a batch of state vectors of n elements: the forward pass
\* of the policy network (line 253), which ends the call when it raises; else
\* one optimizer step on the policy network, the counter, and the copy of the
\* policy weights into the target network when due
TrainStep(l, fresh, n) ==
    LET stepped == [l EXCEPT !.policy_net = OptimizerStep(@, fresh),
                             !.target_net = TargetAfterStep(l, fresh),
                             !.update_count = @ + 1]
    IN IF ForwardRaises(l.policy_net, n) THEN l
       ELSE IF SyncDue(stepped)
       THEN [stepped EXCEPT !.target_net = stepped.policy_net]
       ELSE stepped

\* the tuple update pushes (lines 218-227), idx being the action's index
Experience(idx, x) ==
    [state |-> get_state_representation(x.prev_hunger, x.prev_fatigue),
     action |-> idx, reward |-> x.reward,
     next_state |-> get_state_representation(x.next_hunger, x.next_fatigue),
     done |-> FALSE]

\* DQNLearner.update(prev_hunger, prev_fatigue, action, reward, next_hunger,
\* next_fatigue); x carries the arguments.  KeyError at line 219 leaves the
\* learner as it was; RuntimeError at line 253 (a network whose state_size
\* is not the two elements of the state vectors) comes after the push and
\* the decay, before the optimizer step and the counter.
DQNLearner_update(l, x, fresh) ==
    LET idx == action_to_idx(l.actions, x.action)
        item == Experience(idx, x)
        pushed == [l EXCEPT !.replay_buffer = ReplayBuffer_push(@, l.capacity, item),
                            !.epsilon = DecayedEpsilon(l)]
    IN IF idx = -1
       THEN [learner |-> l, raised |-> TRUE, item |-> <<>>, trained |-> FALSE]
       ELSE IF TooFewSamples(pushed)
       THEN [learner |-> pushed, raised |-> FALSE, item |-> <<item>>, trained |-> FALSE]
       ELSE [learner |-> TrainStep(pushed, fresh, Len(item.state)),
             raised |-> ForwardRaises(l.policy_net, Len(item.state)),
             item |-> <<item>>,
             trained |-> ~ForwardRaises(l.policy_net, Len(item.state))]

\* DQNetwork.forward followed by argmax(1) (lines 34-48, 198-199): three
\* linear layers and two ReLUs, evaluated under torch.no_grad(), so the index
\* is a function of the six tensors and of the input vector and of nothing
\* else.  With the values abstract, the function is a fixed one that depends
\* on each of them; -1 stands for the RuntimeError of fc1 on an input vector
\* that has not state_size elements.
QArgmax(net, state, n) ==
    IF ForwardRaises(net, Len(state)) THEN -1
    ELSE (net["fc1.weight"].data + 2 * net["fc1.bias"].data + 3 * net["fc2.weight"].data
            + 4 * net["fc2.bias"].data + 5 * net["fc3.weight"].data
            + 6 * net["fc3.bias"].data
            + (state[1] \div 1000) + (state[2] \div 1000)) % n

\* DQNLearner.choose_action(hunger, fatigue); u is the value random.random()
\* returned, in thousandths, and r the one random.randrange would return
choose_action(l, hunger, fatigue, u, r) ==
    LET state_tensor == get_state_representation(hunger, fatigue)
        action_idx == IF u < l.epsilon THEN r
                      ELSE QArgmax(l.policy_net, state_tensor, Len(l.actions))
    IN IF action_idx = -1 THEN "RuntimeError" ELSE l.actions[action_idx + 1]

\* (variant: only the policy network takes the file's weights)
DQNLearner_load_model_no_sync(l, file) ==
    IF file.kind # "state_dict" THEN l
    ELSE [l EXCEPT !.policy_net = load_state_dict(@, torch_load(file)).net]

\* DQNLearner.load_model.  torch.load raises FileNotFoundError for a missing
\* file and some other Exception for an unreadable one, both caught (lines
\* 307-310) before anything was assigned.  policy_net.load_state_dict (line
\* 302) copies every tensor whose shape matches and raises RuntimeError if
\* one did not: the handler at line 309 catches it with those tensors
\* copied and line 304, the copy into the target, not reached.  Otherwise
\* the target network loads the policy network's state dict.
DQNLearner_load_model(l, file) ==
    IF file.kind # "state_dict" THEN l
    ELSE LET loaded == load_state_dict(l.policy_net, torch_load(file))
         IN IF loaded.raised THEN [l EXCEPT !.policy_net = loaded.net]
            ELSE [l EXCEPT !.policy_net = loaded.net,
                           !.target_net = load_state_dict(@, loaded.net).net]

\* the learner the Agent constructs (base_agent.py lines 143-147)
AgentActionList ==
    <<"seek_food", "rest", "explore", "move_up", "move_down", "move_left", "move_right",
      "move_object", "drink_water">>
AgentLearner == DQNLearner_init(AgentActionList, 3, 1000, 10, 995, 10000, 64, 100, 0)

NoTrace ==
    [updates |-> 0, pushes |-> <<>>, fresh |-> 1, raised |-> FALSE, trained |-> FALSE,
     pushed |-> FALSE, written |-> FALSE, result |-> "", before |-> AgentLearner,
     saved |-> <<>>, constructed |-> <<>>, loaded |-> <<>>]

\* a learner bound to agent.q_learner by the caller, its choose_action taking
\* hunger, fatigue and thirst
CallerLearner == [actions |-> AgentActionList, takes_thirst |-> TRUE]

\* in the runs of the agent the learner is the one it constructed or the one
\* a caller bound before the run; learner.updates counts the update calls
\* act made on it
LearnerIdle ==
    /\ q_learner \in {AgentLearner, CallerLearner}
    /\ model_file = NoFile
    /\ q_trace = NoTrace

(***************************************************************************)
(* Construction: World() with three food items, two water items and two    *)
(* obstacles placed, Agent() with its default goals and procedures, Awake, *)
(* placed by World.add_agent on a cell that is not an obstacle.  The needs *)
(* are plain attributes of the internal state; runs start from the levels  *)
(* listed here, 0.5 being the constructor's default.                       *)
(***************************************************************************)
InitialGrids ==
    { [food |-> {<<5, 5>>, <<0, 1>>, <<2, 7>>}, water |-> {<<4, 4>>, <<7, 2>>},
       obstacle |-> {<<4, 5>>, <<8, 8>>}] }

InitialPositions == {<<0, 0>>, <<5, 5>>, <<4, 4>>}
HungerLevels == {5000, 7500, 9000}
FatigueLevels == {5000, 9000, 9500}
ThirstLevels == {5000, 9000}

NoThink ==
    [pre_state |-> "Awake", pre_focus |-> NoFocus, pre_cause |-> "none",
     eval |-> [hunger |-> 0, fatigue |-> 0, thirst |-> 0], guards |-> {},
     post_state |-> "Awake", post_focus |-> NoFocus, hooks |-> <<>>, mode |-> "",
     decision |-> "", stage |-> "", decide_is |-> [hunger |-> 0, fatigue |-> 0, thirst |-> 0],
     result |-> "", raised |-> FALSE]

NoAct ==
    [state |-> "Awake", action |-> "", pre |-> [hunger |-> 0, fatigue |-> 0, thirst |-> 0],
     pre_pos |-> <<0, 0>>, raised |-> FALSE, error |-> ""]

\* (variant: no state object assigned by the constructor)
InitialStateUnset == "None"

\* base_agent.py line 202: the agent starts in its awake_state
InitialState == "Awake"

\* Agent.__init__ (with the needs and goals given) followed by World.add_agent
\* at position p: the agent as a record, n its place in World.agents
NewAgent(n, h, f, t, p, goals) ==
    [name |-> n,
     internal_state |-> [hunger |-> Clamp(Dbl(h)), fatigue |-> Clamp(Dbl(f)), thirst |-> Dbl(t)],
     emotion_state |-> [curiosity |-> 0],
     current_consciousness_state |-> InitialState,
     attention_focus |-> NoFocus,
     active_goals |-> goals,
     pos |-> p,
     perception |-> InitialPerception,
     working_memory_buffer |-> <<>>,
     procedures |-> InitialProcedures,
     modules |-> [last_goal_check_step |-> -1, last_generation_step |-> -1],
     current_time_step |-> 0,
     last_action_reward |-> 0,
     learner |-> [updates |-> 0],
     episodic |-> [writes |-> 0],
     focus_cause |-> "none",
     last_think |-> NoThink]

\* the agent variables describe agent a
Embodies(a) ==
    /\ name = a.name
    /\ internal_state = a.internal_state
    /\ emotion_state = a.emotion_state
    /\ current_consciousness_state = a.current_consciousness_state
    /\ attention_focus = a.attention_focus
    /\ active_goals = a.active_goals
    /\ pos = a.pos
    /\ perception = a.perception
    /\ working_memory_buffer = a.working_memory_buffer
    /\ procedures = a.procedures
    /\ modules = a.modules
    /\ current_time_step = a.current_time_step
    /\ last_action_reward = a.last_action_reward
    /\ learner = a.learner
    /\ episodic = a.episodic
    /\ focus_cause = a.focus_cause
    /\ last_think = a.last_think

\* the agent the variables describe, as a record; last_think, the
\* observation of its latest think, goes with it
Self ==
    [name |-> name,
     internal_state |-> internal_state,
     emotion_state |-> emotion_state,
     current_consciousness_state |-> current_consciousness_state,
     attention_focus |-> attention_focus,
     active_goals |-> active_goals,
     pos |-> pos,
     perception |-> perception,
     working_memory_buffer |-> working_memory_buffer,
     procedures |-> procedures,
     modules |-> modules,
     current_time_step |-> current_time_step,
     last_action_reward |-> last_action_reward,
     learner |-> learner,
     episodic |-> episodic,
     focus_cause |-> focus_cause,
     last_think |-> last_think]

\* the agent constructed with the goals given and added last to a world that
\* holds the agents of others already and has run step calls of World.step
\* before the first agent was added, its weather the one given
ConstructedAfter(step, h, f, t, p, g, goals, weather, others) ==
    /\ Embodies(NewAgent(Len(others) + 1, h, f, t, p, goals))
    /\ roster = others
    /\ turn = 0
    /\ tick_log = <<>>
    /\ world = [time_step |-> step,
                time_of_day |-> IF step = 0 \/ (step - 1) % 10 < 5 THEN "day" ELSE "night",
                current_weather |-> weather]
    /\ grid = g
    /\ pending = ""
    /\ calls = 0
    /\ op = "init"
    /\ last_transition = [from |-> "Awake", to |-> "Awake", focus_before |-> NoFocus,
                          hooks |-> <<>>]
    /\ last_decide = [mode |-> "", is |-> [hunger |-> 0, fatigue |-> 0, thirst |-> 0],
                      action |-> "", stage |-> "", selected |-> NoGoalId]
    /\ last_act = NoAct

\* the same in a world fresh from World.__init__
ConstructedAmong(h, f, t, p, g, goals, weather, others) ==
    ConstructedAfter(0, h, f, t, p, g, goals, weather, others)

\* the agent alone in its world
ConstructedUnder(h, f, t, p, g, goals, weather) ==
    ConstructedAmong(h, f, t, p, g, goals, weather, <<>>)

\* World.__init__ leaves the weather sunny
ConstructedWith(h, f, t, p, g, goals) == ConstructedUnder(h, f, t, p, g, goals, "sunny")

\* Agent.__init__ with the goals of _initialize_goals
Constructed(h, f, t, p, g) == ConstructedWith(h, f, t, p, g, InitialGoals)

(***************************************************************************)
(* The worlds the runs of the world loop start in.  World.__init__ leaves  *)
(* three food items and two water items, and every call of                 *)
(* update_environment draws for each empty cell until five and three lie   *)
(* on the grid; World.step runs on an empty agent list as well.  The runs  *)
(* start after the first call of World.step, made before the first agent   *)
(* was added: two food items and one water item have appeared, or one of   *)
(* the food items, or both food items and no water.  In the worlds that    *)
(* have room left the agent is a tired one, asleep from its first think,   *)
(* where a food item is missing, and one with the constructor's needs      *)
(* where the water is.                                                     *)
(***************************************************************************)
GrownFood == {<<9, 0>>, <<9, 5>>}
GrownWater == {<<0, 9>>}

\* g with the food and the water that appeared
Grown(g, food, water) == [g EXCEPT !.food = @ \cup food, !.water = @ \cup water]

FullGrids == {Grown(g, GrownFood, GrownWater) : g \in InitialGrids}
FoodShortGrids == {Grown(g, {<<9, 0>>}, GrownWater) : g \in InitialGrids}
WaterShortGrids == {Grown(g, GrownFood, {}) : g \in InitialGrids}

\* hunger, fatigue, thirst and the grid
ShortWorlds ==
    {<<5000, 9500, 5000, g>> : g \in FoodShortGrids}
       \cup {<<5000, 5000, 5000, g>> : g \in WaterShortGrids}

Init ==
    /\ \/ \E h \in HungerLevels : \E f \in FatigueLevels : \E t \in ThirstLevels :
          \E p \in InitialPositions : \E g \in FullGrids :
             ConstructedAfter(1, h, f, t, p, g, InitialGoals, "sunny", <<>>)
       \/ \E w \in ShortWorlds :
             ConstructedAfter(1, w[1], w[2], w[3], <<0, 0>>, w[4], InitialGoals, "sunny", <<>>)
    /\ LearnerIdle
    /\ pc = "update_environment"
    /\ horizon = 1 + MaxTicks

(***************************************************************************)
(* World.step (lines 224-248): update_environment, then sense, think, act  *)
(* of every agent of World.agents in list order, then time_step + 1.  An   *)
(* exception ends the run.  The agent variables describe the agent whose   *)
(* turn it is; the others wait in roster, and the loop taking its next     *)
(* agent is a step of its own when there is another agent to take.         *)
(* Between two calls of World.step the variables describe the agent at the *)
(* end of World.agents, the one that acted last.                           *)
(***************************************************************************)
StepUpdateEnvironment ==
    /\ pc = "update_environment"
    /\ world.time_step < horizon
    /\ update_environment
    /\ pc' = IF roster = <<>> THEN "sense" ELSE "for_agent"
    /\ op' = "update_environment"
    /\ tick_log' = <<>>
    /\ UNCHANGED <<internal_state, emotion_state, current_consciousness_state, attention_focus,
                   active_goals, pos, perception, working_memory_buffer, procedures, modules,
                   current_time_step, last_action_reward, learner, episodic, pending, calls,
                   focus_cause, horizon, learner_vars, last_think, last_decide, last_transition,
                   last_act, name, roster, turn>>

\* the variables take up agent a
Resume(a) ==
    /\ name' = a.name
    /\ internal_state' = a.internal_state
    /\ emotion_state' = a.emotion_state
    /\ current_consciousness_state' = a.current_consciousness_state
    /\ attention_focus' = a.attention_focus
    /\ active_goals' = a.active_goals
    /\ pos' = a.pos
    /\ perception' = a.perception
    /\ working_memory_buffer' = a.working_memory_buffer
    /\ procedures' = a.procedures
    /\ modules' = a.modules
    /\ current_time_step' = a.current_time_step
    /\ last_action_reward' = a.last_action_reward
    /\ learner' = a.learner
    /\ episodic' = a.episodic
    /\ focus_cause' = a.focus_cause
    /\ last_think' = a.last_think

\* (variant: the loop takes the agent at the end of the list)
NextOfRosterLast(r) == Len(r)

\* line 240, "for agent in self.agents": the list iterator hands out the
\* agents in list order, and the roster keeps them in the order of their
\* coming turns
NextOfRoster(r) == 1

\* the loop takes its next agent: the one that ran goes to the end of the
\* roster
StepForAgent ==
    /\ pc = "for_agent"
    /\ LET k == NextOfRoster(roster)
           rest == [i \in 1..(Len(roster) - 1) |-> IF i < k THEN roster[i] ELSE roster[i + 1]]
       IN /\ Resume(roster[k])
          /\ roster' = Append(rest, Self)
    /\ pc' = "sense"
    /\ op' = "for_agent"
    /\ UNCHANGED <<world, grid, pending, calls, horizon, learner_vars, last_decide,
                   last_transition, last_act, turn, tick_log>>

StepSense ==
    /\ pc = "sense"
    /\ AgentSense
    /\ pc' = "think"
    /\ op' = "sense"
    /\ tick_log' = Append(tick_log, <<name, "sense">>)
    /\ UNCHANGED <<internal_state, emotion_state, current_consciousness_state, attention_focus,
                   active_goals, pos, procedures, modules, last_action_reward, learner,
                   episodic, world, grid, pending, calls, focus_cause, horizon, learner_vars, last_think,
                   last_decide, last_transition, last_act, name, roster, turn>>

StepThink ==
    /\ pc = "think"
    /\ AgentThink
    /\ pc' = IF last_think'.raised THEN "crashed" ELSE "act"
    /\ tick_log' = Append(tick_log, <<name, "think">>)
    /\ UNCHANGED <<pos, perception, working_memory_buffer, current_time_step,
                   last_action_reward, learner, episodic, world, grid, calls, horizon, learner_vars,
                   last_transition, last_act, name, roster, turn>>

\* (variant: the tick index moves on after every agent's act)
TickAdvancesEachAgent(done, raised) == ~raised

\* line 248 follows the loop: the tick index moves on once the last agent of
\* the list has acted
TickAdvances(done, raised) == ~raised /\ done = Len(roster) + 1

StepAct ==
    /\ pc = "act"
    /\ AgentAct(pending)
    /\ tick_log' = Append(tick_log, <<name, "act">>)
    /\ LET raised == last_act'.raised
           last == ~raised /\ turn + 1 = Len(roster) + 1
       IN /\ pc' = IF raised THEN "crashed"
                   ELSE IF last THEN "update_environment" ELSE "for_agent"
          /\ turn' = IF raised THEN turn ELSE IF last THEN 0 ELSE turn + 1
          /\ world' = IF TickAdvances(turn + 1, raised)
                      THEN [world EXCEPT !.time_step = @ + 1] ELSE world
    /\ UNCHANGED <<current_consciousness_state, attention_focus, active_goals, perception,
                   working_memory_buffer, modules, pending, calls, focus_cause, horizon, learner_vars,
                   last_think, last_decide, last_transition, name, roster>>

(***************************************************************************)
(* Calls made on the world between two calls of World.step, by the code    *)
(* that drives it (src/main.py lines 117-169): World.add_agent and         *)
(* World.move_object_at_position.  calls counts them.                      *)
(***************************************************************************)
MaxWorldCalls == 1

\* what add_agent is given: an agent with the needs of the constructor, and
\* the start positions of main.py (lines 122 and 130), the two corners
AddedNeeds == {<<5000, 5000, 5000>>}
StartPositions == {<<0, 0>>, <<GRID_SIZE - 1, GRID_SIZE - 1>>}

\* World.add_agent (lines 142-153) and _place_agent_randomly (lines 158-167):
\* the start position when it is inside the grid and not an obstacle, else
\* any cell drawn that holds nothing, food or water
Places(g, start) ==
    IF InGrid(start) /\ GridAt(g, start) # "obstacle" THEN {start}
    ELSE {c \in Cells : GridAt(g, c) \in {"empty", "food", "water"}}

\* World.add_agent(agent, start_pos): the agent goes to the end of
\* World.agents
AddAgent ==
    /\ pc = "update_environment" /\ world.time_step < horizon
    /\ calls < MaxWorldCalls
    /\ \E n \in AddedNeeds : \E start \in StartPositions : \E p \in Places(grid, start) :
          Resume(NewAgent(Len(roster) + 2, n[1], n[2], n[3], p, InitialGoals))
    /\ roster' = Append(roster, Self)
    /\ calls' = calls + 1
    /\ op' = "add_agent"
    /\ UNCHANGED <<world, grid, pc, pending, horizon, learner_vars, last_decide, last_transition,
                   last_act, turn, tick_log>>

\* World.move_object_at_position (lines 292-320)
move_object_at_position(g, from, to) ==
    IF CanMoveObject(g, from, to) THEN [g EXCEPT !.obstacle = (@ \ {from}) \cup {to}] ELSE g

\* World.move_object_at_position(from_x, from_y, to_x, to_y), called on a
\* cell that holds an obstacle or on the cell of the agent (base_agent.py
\* line 815) and one of the four cells next to it (lines 817-822)
MoveObjectAtPosition ==
    /\ pc = "update_environment" /\ world.time_step < horizon
    /\ calls < MaxWorldCalls
    /\ \E from \in grid.obstacle \cup {pos} : \E k \in 1..4 :
          grid' = move_object_at_position(grid, from, ObjectDestinations(from)[k])
    /\ calls' = calls + 1
    /\ op' = "move_object_at_position"
    /\ UNCHANGED <<internal_state, emotion_state, current_consciousness_state, attention_focus,
                   active_goals, pos, perception, working_memory_buffer, procedures, modules,
                   current_time_step, last_action_reward, learner, episodic, world, pending,
                   focus_cause, last_think, last_decide, last_transition, last_act, pc, horizon,
                   learner_vars, loop_vars>>

Next ==
    \/ StepUpdateEnvironment
    \/ StepForAgent
    \/ StepSense
    \/ StepThink
    \/ StepAct
    \/ AddAgent
    \/ MoveObjectAtPosition

Spec == Init /\ [][Next]_vars

(***************************************************************************)
(* The world loop over a world of several agents: World.add_agent has      *)
(* appended one to MaxAgents agents to World.agents before the first call  *)
(* of World.step that finds them, each constructed with one of the needs   *)
(* and placed on one of the cells below (add_agent does not look for       *)
(* another agent on the cell).  Where the world has room left for food,    *)
(* the agents are two tired ones.                                          *)
(***************************************************************************)
MaxAgents == 3
MaxRosterTicks == 1

\* what each add_agent call is given: the needs of the agent and its cell,
\* a hungry agent, one with the default needs on the cell next to it, or a
\* tired one (it falls asleep in its first think)
TiredChoice == << <<5000, 9500, 5000>>, <<2, 4>> >>
RosterChoices ==
    {<< <<9000, 5000, 5000>>, <<2, 3>> >>, << <<5000, 5000, 5000>>, <<2, 4>> >>, TiredChoice}

\* the grids of a world whose agents were given ch
RosterGrids(ch) ==
    IF DOMAIN ch = 1..2 /\ \A i \in DOMAIN ch : ch[i] = TiredChoice
    THEN FullGrids \cup FoodShortGrids
    ELSE FullGrids

RosterInit ==
    /\ \E n \in 1..MaxAgents : \E ch \in [1..n -> RosterChoices] : \E g \in RosterGrids(ch) :
          LET added(i) == NewAgent(i, ch[i][1][1], ch[i][1][2], ch[i][1][3], ch[i][2],
                                   InitialGoals)
          IN ConstructedAfter(1, ch[n][1][1], ch[n][1][2], ch[n][1][3], ch[n][2], g,
                              InitialGoals, "sunny", [i \in 1..(n - 1) |-> added(i)])
    /\ LearnerIdle
    /\ pc = "update_environment"
    /\ horizon = 1 + MaxRosterTicks

RosterSpec == RosterInit /\ [][Next]_vars

(***************************************************************************)
(* Calls of the agent's public methods in any order, as a test harness or  *)
(* another component makes them: sense(), think(), act(action) with any    *)
(* action string, transition_to_state(state), the arbiter's                *)
(* decide_final_action(agent, mode) with either mode, and                  *)
(* process_user_message(message), which main.py binds to the class.        *)
(***************************************************************************)
CallInit ==
    /\ \E h \in HungerLevels : \E f \in FatigueLevels : \E t \in ThirstLevels :
       \E p \in InitialPositions : \E g \in InitialGrids : Constructed(h, f, t, p, g)
    /\ LearnerIdle
    /\ pc = "api"
    /\ horizon = MaxCalls

CallSense ==
    /\ pc = "api" /\ calls < horizon
    /\ AgentSense
    /\ calls' = calls + 1
    /\ op' = "sense"
    /\ UNCHANGED <<internal_state, emotion_state, current_consciousness_state, attention_focus,
                   active_goals, pos, procedures, modules, last_action_reward, learner,
                   episodic, world, grid, pc, pending, focus_cause, horizon, learner_vars, loop_vars, last_think,
                   last_decide, last_transition, last_act>>

CallThink ==
    /\ pc = "api" /\ calls < horizon
    /\ AgentThink
    /\ calls' = calls + 1
    /\ UNCHANGED <<pos, perception, working_memory_buffer, current_time_step,
                   last_action_reward, learner, episodic, world, grid, pc, horizon, learner_vars, loop_vars,
                   last_transition, last_act>>

CallAct ==
    /\ pc = "api" /\ calls < horizon
    /\ \E action \in Actions \cup {UnknownAction, UnknownMove} : AgentAct(action)
    /\ calls' = calls + 1
    /\ UNCHANGED <<current_consciousness_state, attention_focus, active_goals, perception,
                   working_memory_buffer, modules, world, pc, pending, focus_cause, horizon, learner_vars, loop_vars,
                   last_think, last_decide, last_transition>>

CallTransition ==
    /\ pc = "api" /\ calls < horizon
    /\ \E new \in States :
         LET r == transition_to_state(current_consciousness_state, attention_focus, new)
         IN /\ current_consciousness_state' = r.state
            /\ attention_focus' = r.focus
            /\ last_transition' = [from |-> current_consciousness_state, to |-> new,
                                   focus_before |-> attention_focus, hooks |-> r.hooks]
    /\ focus_cause' = IF current_consciousness_state' = "Focused" THEN focus_cause ELSE "none"
    /\ calls' = calls + 1
    /\ op' = "transition_to_state"
    /\ UNCHANGED <<internal_state, emotion_state, active_goals, pos, perception,
                   working_memory_buffer, procedures, modules, current_time_step,
                   last_action_reward, learner, episodic, world, grid, pc, pending, horizon, learner_vars, loop_vars,
                   last_think, last_decide, last_act>>

\* the agent as decide_final_action reads it
AgentAsRead ==
    [is |-> internal_state, em |-> emotion_state, goals |-> active_goals,
     pos |-> pos, perc |-> perception, wm |-> working_memory_buffer,
     procs |-> procedures, t |-> current_time_step, grid |-> grid]

\* what the call leaves behind, d being the decision
Decided(mode, d) ==
    /\ active_goals' = d.goals
    /\ procedures' = d.procs
    /\ last_decide' = [mode |-> mode, is |-> internal_state, action |-> d.action,
                       stage |-> d.stage, selected |-> d.selected]

CallDecide ==
    /\ pc = "api" /\ calls < horizon
    /\ \E mode \in {"reactive", "deliberative"} :
       \E dqn \in LearnerOutcomes(q_learner, active_goals, mode) :
       \E coin \in CoinOutcomes : \E rmove \in MoveOutcomes :
         Decided(mode, decide_final_action(AgentAsRead, mode, dqn, coin, rmove))
    /\ calls' = calls + 1
    /\ op' = "decide_final_action"
    /\ UNCHANGED <<internal_state, emotion_state, current_consciousness_state, attention_focus,
                   pos, perception, working_memory_buffer, modules, current_time_step,
                   last_action_reward, learner, episodic, world, grid, pc, pending,
                   focus_cause, horizon, learner_vars, loop_vars, last_think, last_act, last_transition>>

\* what a message is to process_user_message: its lowered content holds
\* 'happy', or 'tired' without 'happy', or neither
MessageKinds == {"happy", "tired", "other"}

\* the fatigue an interaction takes off (main.py line 99)
MessageRelief == 1000

\* Agent.process_user_message (main.py lines 63-102, bound at line 107) on
\* the needs: a 'tired' message lowers fatigue through the clamping setter;
\* for the other messages the call ends in AttributeError at line 97 or 102
\* (mood_value is a property without a setter) with the needs as they were.
\* The monologue and the response it writes are not part of the state.
process_user_message(s, kind) ==
    IF kind = "tired" THEN [s EXCEPT !.fatigue = Clamp(FSubFloor(@, Dbl(MessageRelief)))]
    ELSE s

CallProcessUserMessage ==
    /\ pc = "api" /\ calls < horizon
    /\ \E kind \in MessageKinds :
          internal_state' = process_user_message(internal_state, kind)
    /\ calls' = calls + 1
    /\ op' = "process_user_message"
    /\ UNCHANGED <<emotion_state, current_consciousness_state, attention_focus, active_goals,
                   pos, perception, working_memory_buffer, procedures, modules,
                   current_time_step, last_action_reward, learner, episodic, world, grid, pc,
                   pending, focus_cause, horizon, learner_vars, loop_vars, last_think,
                   last_decide, last_transition, last_act>>

CallNext ==
    \/ CallSense \/ CallThink \/ CallAct \/ CallTransition \/ CallDecide
    \/ CallProcessUserMessage

CallSpec == CallInit /\ [][CallNext]_vars

(***************************************************************************)
(* A longer run of think() and act(action) calls from one constructed      *)
(* state: a starving agent (hunger clamped at 1.0) standing on food with   *)
(* more food on the cell to its right, rested and not thirsty, asked to    *)
(* eat and to step right.                                                  *)
(***************************************************************************)
LongGrid ==
    [food |-> {<<5, 1>>, <<5, 2>>, <<0, 9>>}, water |-> {<<9, 0>>, <<9, 9>>},
     obstacle |-> {<<0, 5>>, <<9, 5>>}]

LongActions == {"seek_food", "move_right"}

LongInit ==
    /\ \E f \in {1000, 2000} : \E t \in {0, 500} :
          Constructed(10000, f, t, <<5, 1>>, LongGrid)
    /\ LearnerIdle
    /\ pc = "api"
    /\ horizon = MaxTicksLong

LongAct ==
    /\ pc = "api" /\ calls < horizon
    /\ \E action \in LongActions : AgentAct(action)
    /\ calls' = calls + 1
    /\ UNCHANGED <<current_consciousness_state, attention_focus, active_goals, perception,
                   working_memory_buffer, modules, world, pc, pending, focus_cause, horizon, learner_vars, loop_vars,
                   last_think, last_decide, last_transition>>

LongNext == CallThink \/ LongAct

LongSpec == LongInit /\ [][LongNext]_vars

(***************************************************************************)
(* Calls of the agent's public methods on agents whose goal store a caller *)
(* has filled.  active_goals is a plain list of goal records (layout at    *)
(* base_agent.py lines 166-181, with "prerequisites" a list of goal ids);  *)
(* the stores below are the constructor's, with prerequisites put on the   *)
(* main goal or the sub-goal, one of them an id no goal carries, and with  *)
(* the sub-goal already completed.  From the constructor's own store the   *)
(* arbiter never pursues a reach_location goal while the sub-goal is open  *)
(* (effective priority 0.94 against 0.9), so the sub-goal never gets an    *)
(* obstacle_location and is never completed.                               *)
(***************************************************************************)
MaxGoalCalls == 2

MissingGoalId == <<"goal_missing", -1>>

GoalStores ==
    { InitialGoals,
      [InitialGoals EXCEPT ![1].prerequisites = {ClearObstacleId}],
      [InitialGoals EXCEPT ![2].prerequisites = {MissingGoalId}],
      [InitialGoals EXCEPT ![1].prerequisites = {ClearObstacleId}, ![2].completed = TRUE],
      [InitialGoals EXCEPT ![2].completed = TRUE] }

GoalPositions == {<<4, 4>>, <<5, 5>>}

GoalInit ==
    /\ \E p \in GoalPositions : \E goals \in GoalStores : \E g \in InitialGrids :
          ConstructedWith(5000, 5000, 5000, p, g, goals)
    /\ LearnerIdle
    /\ pc = "api"
    /\ horizon = MaxGoalCalls

GoalSpec == GoalInit /\ [][CallNext]_vars

(***************************************************************************)
(* The arbiter on its inputs.  decide_final_action reads the needs, the    *)
(* perception (weather, what is in sight), the working memory, the goals   *)
(* and the curiosity; these runs call sense(), think() and                 *)
(* decide_final_action(agent, mode) on agents whose needs and goal store   *)
(* are drawn from the sets below, in a world whose weather has been drawn  *)
(* by update_environment.  sense() brings the weather and the sightings    *)
(* in, think() sets the curiosity (0.8 when hunger and fatigue are below   *)
(* 0.3) and runs the arbiter itself.                                       *)
(***************************************************************************)
MaxArbiterCalls == 2

\* hunger, fatigue, thirst: all low, or one of them elevated (above 0.6)
ArbiterNeeds == {<<2000, 2000, 2000>>, <<6500, 2000, 2000>>, <<2000, 6500, 2000>>, <<2000, 2000, 6500>>}

\* the constructor's goals, the same with the sub-goal completed, and with
\* every goal completed
ArbiterGoalStores ==
    { InitialGoals,
      [InitialGoals EXCEPT ![2].completed = TRUE],
      [i \in 1..Len(InitialGoals) |-> [InitialGoals[i] EXCEPT !.completed = TRUE]] }

ArbiterInit ==
    /\ \E n \in ArbiterNeeds :
       \E p \in GoalPositions : \E goals \in ArbiterGoalStores : \E g \in InitialGrids :
       \E weather \in WEATHER_TYPES : ConstructedUnder(n[1], n[2], n[3], p, g, goals, weather)
    /\ LearnerIdle
    /\ pc = "api"
    /\ horizon = MaxArbiterCalls

ArbiterNext == CallSense \/ CallThink \/ CallDecide

ArbiterSpec == ArbiterInit /\ [][ArbiterNext]_vars

(***************************************************************************)
(* Calls of a DQNLearner's methods in any order, on learners constructed   *)
(* with the values below: update, choose_action, save_model, load_model,   *)
(* and push on its replay buffer.  state_size is 2, the width of the state *)
(* vectors, or 3, the value both constructions in the repository pass.     *)
(***************************************************************************)
MaxLearnerCalls == 4

StateSizeValues == {2, 3}

LearnerActionList == <<"seek_food", "rest">>
EpsilonValues == {5, 1000}
EpsilonMinValues == {300}
DecayRateValues == {500}
CapacityValues == {2, 3}
BatchSizeValues == {1, 2, 3}
FrequencyValues == {1, 2}

\* (hunger, fatigue) pairs choose_action is probed with, and the values of
\* random.random() in thousandths: below every epsilon, above every one under 1
ProbeStates == {<<2000, 2000>>, <<9000, 3000>>, <<5000, 9000>>}
RandomDraws == {0, 999}

\* arguments of update: a rest that paid, a failed seek_food, an action the
\* learner was not constructed with
UpdateInputs ==
    { [prev_hunger |-> 5000, prev_fatigue |-> 9000, action |-> "rest", reward |-> 40,
       next_hunger |-> 5100, next_fatigue |-> 3050],
      [prev_hunger |-> 9000, prev_fatigue |-> 5000, action |-> "seek_food", reward |-> -10,
       next_hunger |-> 9300, next_fatigue |-> 5050],
      [prev_hunger |-> 5000, prev_fatigue |-> 5000, action |-> UnknownAction, reward |-> -20,
       next_hunger |-> 5100, next_fatigue |-> 5050] }

\* a state dict saved by a DQNetwork with one action more: fc1 and fc2 have
\* the shapes of the learner's network, fc3 not
OtherArchFile == torch_save(DQNetwork(2, Len(LearnerActionList) + 1, 100))

\* a learner constructed as l was, with epsilon 0 and the initial weights drawn
FreshLearner(l, weights) ==
    DQNLearner_init(l.actions, l.state_size, 0, 0, l.epsilon_decay_rate, l.capacity,
                    l.batch_size, l.target_update_frequency, weights)

\* arguments of a direct push: the transitions of the updates above whose
\* action the learner knows
PushInputs == {x \in UpdateInputs : x.action # UnknownAction}

LearnerInit ==
    /\ Constructed(5000, 5000, 5000, <<0, 0>>, LongGrid)
    /\ pc = "learner"
    /\ horizon = MaxLearnerCalls
    /\ \E e \in EpsilonValues : \E em \in EpsilonMinValues : \E d \in DecayRateValues :
       \E c \in CapacityValues : \E b \in BatchSizeValues : \E n \in FrequencyValues :
       \E size \in StateSizeValues :
          /\ q_learner = DQNLearner_init(LearnerActionList, size, e, em, d, c, b, n, 0)
          /\ q_trace = [NoTrace EXCEPT !.before = q_learner]
    /\ model_file \in {NoFile, CorruptFile, OtherArchFile}

LearnerUpdate ==
    /\ pc = "learner" /\ calls < horizon
    /\ \E x \in UpdateInputs :
         LET r == DQNLearner_update(q_learner, x, q_trace.fresh)
         IN /\ q_learner' = r.learner
            /\ q_trace' = [updates |-> IF r.raised THEN q_trace.updates
                                       ELSE q_trace.updates + 1,
                           pushes |-> q_trace.pushes \o r.item,
                           fresh |-> IF r.trained THEN q_trace.fresh + 1 ELSE q_trace.fresh,
                           raised |-> r.raised, trained |-> r.trained,
                           pushed |-> r.item # <<>>, written |-> FALSE, result |-> "",
                           before |-> q_learner, saved |-> q_trace.saved,
                           constructed |-> <<>>, loaded |-> <<>>]
    /\ op' = "q_update"
    /\ calls' = calls + 1
    /\ UNCHANGED <<agent_vars, model_file, pc, horizon, loop_vars>>

\* replay_buffer.push(state, action, reward, next_state, done) called on the
\* learner's buffer directly, with a tuple as update builds it: no decay of
\* epsilon, no training, no count
LearnerPush ==
    /\ pc = "learner" /\ calls < horizon
    /\ \E x \in PushInputs :
         LET item == Experience(action_to_idx(q_learner.actions, x.action), x)
         IN /\ q_learner' = [q_learner EXCEPT
                                !.replay_buffer = ReplayBuffer_push(@, q_learner.capacity, item)]
            /\ q_trace' = [q_trace EXCEPT !.pushes = @ \o <<item>>,
                                          !.result = "", !.raised = FALSE, !.trained = FALSE,
                                          !.pushed = TRUE, !.written = FALSE,
                                          !.before = q_learner,
                                          !.constructed = <<>>, !.loaded = <<>>]
    /\ op' = "q_push"
    /\ calls' = calls + 1
    /\ UNCHANGED <<agent_vars, model_file, pc, horizon, loop_vars>>

\* choose_action(hunger, fatigue) on a probe state, under either outcome of
\* random.random() and any of random.randrange
LearnerChooseAction ==
    /\ pc = "learner" /\ calls < horizon
    /\ \E x \in ProbeStates : \E u \in RandomDraws : \E r \in 0..(Len(q_learner.actions) - 1) :
         q_trace' = [q_trace EXCEPT !.result = choose_action(q_learner, x[1], x[2], u, r),
                                    !.raised = FALSE, !.trained = FALSE, !.pushed = FALSE,
                                    !.written = FALSE, !.before = q_learner,
                                    !.constructed = <<>>, !.loaded = <<>>]
    /\ op' = "q_choose_action"
    /\ calls' = calls + 1
    /\ UNCHANGED <<agent_vars, q_learner, model_file, pc, horizon, loop_vars>>

\* save_model(filepath): the policy network's state dict goes to the file,
\* unless the write fails with IOError
LearnerSaveModel ==
    /\ pc = "learner" /\ calls < horizon
    /\ \E written \in BOOLEAN :
         /\ model_file' = IF written THEN torch_save(q_learner.policy_net) ELSE model_file
         /\ q_trace' = [q_trace EXCEPT !.result = "", !.raised = FALSE, !.trained = FALSE,
                                       !.pushed = FALSE, !.before = q_learner,
                                       !.written = written,
                                       !.saved = IF written THEN <<q_learner>> ELSE @,
                                       !.constructed = <<>>, !.loaded = <<>>]
    /\ op' = "q_save_model"
    /\ calls' = calls + 1
    /\ UNCHANGED <<agent_vars, q_learner, pc, horizon, loop_vars>>

LearnerLoadModel ==
    /\ pc = "learner" /\ calls < horizon
    /\ q_learner' = DQNLearner_load_model(q_learner, model_file)
    /\ q_trace' = [q_trace EXCEPT !.result = "", !.raised = FALSE, !.trained = FALSE,
                                  !.pushed = FALSE, !.written = FALSE, !.before = q_learner,
                                  !.constructed = <<>>, !.loaded = <<>>]
    /\ op' = "q_load_model"
    /\ calls' = calls + 1
    /\ UNCHANGED <<agent_vars, model_file, pc, horizon, loop_vars>>

\* a second learner is constructed as main.py constructs the first agent's
\* (lines 121-125) and calls load_model on the file; its initial weights are
\* those q_learner started from or weights no network holds
LearnerLoadModelFresh ==
    /\ pc = "learner" /\ calls < horizon
    /\ \E weights \in {0, q_trace.fresh} :
         q_trace' = [q_trace EXCEPT !.result = "", !.raised = FALSE, !.trained = FALSE,
                                    !.pushed = FALSE, !.written = FALSE, !.before = q_learner,
                                    !.constructed = <<FreshLearner(q_learner, weights)>>,
                                    !.loaded = <<DQNLearner_load_model(
                                                    FreshLearner(q_learner, weights), model_file)>>]
    /\ op' = "q_load_model_fresh"
    /\ calls' = calls + 1
    /\ UNCHANGED <<agent_vars, q_learner, model_file, pc, horizon, loop_vars>>

LearnerNext ==
    \/ LearnerUpdate \/ LearnerPush \/ LearnerChooseAction \/ LearnerSaveModel
    \/ LearnerLoadModel \/ LearnerLoadModelFresh

LearnerSpec == LearnerInit /\ [][LearnerNext]_vars

(***************************************************************************)
(* Properties.                                                             *)
(***************************************************************************)
Needs(s) == {s.hunger, s.fatigue, s.thirst}
SomeNeedAbove(s, level) == \E n \in Needs(s) : n > level

\* C1: whenever a need exceeds 0.85 when decide_final_action runs, it returns
\* the action satisfying that need at once, whatever the mode: seek_food for
\* hunger first, then drink_water for thirst, then rest for fatigue.
C1_CriticalOverride ==
    last_decide.mode # "" =>
        /\ last_decide.is.hunger > Dbl(8500) => last_decide.action = "seek_food"
        /\ (last_decide.is.hunger <= Dbl(8500) /\ last_decide.is.thirst > Dbl(8500))
              => last_decide.action = "drink_water"
        /\ (last_decide.is.hunger <= Dbl(8500) /\ last_decide.is.thirst <= Dbl(8500)
              /\ last_decide.is.fatigue > Dbl(8500)) => last_decide.action = "rest"
        /\ SomeNeedAbove(last_decide.is, Dbl(8500)) => last_decide.stage = "critical"

C1_Witness ==
    /\ op = "decide_final_action"
    /\ last_decide.mode = "reactive"
    /\ last_decide.is.hunger > Dbl(8500) /\ last_decide.is.thirst > Dbl(8500)
    /\ last_decide.action = "seek_food"

\* C2: the consciousness state of every agent is always exactly one of
\* Awake, Asleep and Focused, and it is Awake right after construction, be
\* the agent added before the first tick or between two ticks.
C2_OneState ==
    /\ current_consciousness_state \in {"Awake", "Asleep", "Focused"}
    /\ \A i \in 1..Len(roster) :
          roster[i].current_consciousness_state \in {"Awake", "Asleep", "Focused"}
    /\ op \in {"init", "add_agent"} => current_consciousness_state = "Awake"

C2_Witness ==
    /\ op = "think"
    /\ last_think.pre_state = "Asleep"
    /\ current_consciousness_state = "Focused"

\* C3: when fatigue exceeds 0.9 at the evaluation made by Agent.think and the
\* agent is not Asleep, it is Asleep after the evaluation, whatever hunger,
\* thirst, attention focus and previous state are.
C3_FallAsleep ==
    (op = "think" /\ last_think.eval.fatigue > Dbl(9000) /\ last_think.pre_state # "Asleep")
        => (last_think.post_state = "Asleep" /\ current_consciousness_state = "Asleep")

C3_Witness ==
    /\ op = "think"
    /\ last_think.eval.fatigue > Dbl(9000) /\ last_think.eval.hunger > Dbl(8000)
    /\ last_think.pre_state = "Focused" /\ last_think.pre_focus = "food"
    /\ current_consciousness_state = "Asleep"

\* C4: when the agent is Asleep after the transition check, think() returns
\* 'rest'; the arbiter and the learner are not consulted and no goal is
\* modified.
C4_AsleepThinksRest ==
    [][(op' = "think" /\ current_consciousness_state' = "Asleep")
          => /\ pending' = "rest"
             /\ last_think'.result = "rest"
             /\ last_think'.mode = "" /\ last_think'.stage = ""
             /\ last_decide' = last_decide
             /\ active_goals' = active_goals]_vars

C4_Witness ==
    /\ op = "think"
    /\ current_consciousness_state = "Asleep"
    /\ last_think.pre_state = "Asleep"
    /\ pending = "rest"

\* C5 as stated: while Asleep, act(a) gives for every a the fatigue, the reward
\* and everything else that act('rest') gives.
C5_AnyActionIsRest ==
    (op = "act" /\ last_act.state = "Asleep")
        => /\ internal_state.fatigue
                = Clamp(FAdd(Clamp(FSubFloor(last_act.pre.fatigue, Dbl(7000))), Dbl(50)))
           /\ last_action_reward = 60

\* C5: while Asleep, act(a) changes nothing but the needs, the emotions and the
\* reward: 'rest' lowers fatigue by 0.7 for a reward of 0.6, any other action
\* lowers it by 0.2 for a reward of 0.1, then hunger and fatigue grow by one
\* step and thirst stays; position, grid, goals, procedures, learner, episodic memory and step
\* counter stay as they are.
C5_AsleepActRestsOnly ==
    [][(op' = "act" /\ last_act'.state = "Asleep")
          => LET deep == last_act'.action = "rest"
                 rested == FSubFloor(internal_state.fatigue, Dbl(IF deep THEN 7000 ELSE 2000))
             IN /\ internal_state'.fatigue = Clamp(FAdd(Clamp(rested), Dbl(50)))
                /\ internal_state'.hunger = Clamp(FAdd(internal_state.hunger, Dbl(100)))
                /\ internal_state'.thirst = internal_state.thirst
                /\ last_action_reward' = (IF deep THEN 60 ELSE 10)
                /\ UNCHANGED <<pos, grid, active_goals, procedures, learner, episodic,
                               current_time_step, current_consciousness_state>>]_vars

C5_Witness ==
    /\ op = "act"
    /\ last_act.state = "Asleep"
    /\ last_act.action = "seek_food"
    /\ last_action_reward = 10

\* C6 as stated: an Asleep agent leaves Asleep only at an evaluation where
\* fatigue is below 0.2, and it is Awake then; at fatigue 0.2 or more no
\* transition happens whatever hunger and thirst are.
C6_WakesOnlyRested ==
    (op = "think" /\ last_think.pre_state = "Asleep")
        => /\ last_think.eval.fatigue < Dbl(2000) => last_think.post_state = "Awake"
           /\ last_think.eval.fatigue >= Dbl(2000) => last_think.post_state = "Asleep"

\* C7 as stated: in Awake the mode handed to the arbiter is 'reactive' when a
\* need exceeds 0.8 and 'deliberative' otherwise.
C7_ReactiveOnNeed ==
    (op = "think" /\ last_think.post_state = "Awake" /\ last_think.stage # "")
        => last_think.mode = (IF SomeNeedAbove(last_think.eval, Dbl(8000))
                              THEN "reactive" ELSE "deliberative")

\* C8 as stated: an agent that entered Focused because hunger exceeded 0.8
\* (thirst exceeded 0.8) leaves it for Awake at the first later evaluation with
\* hunger below 0.3 (thirst below 0.2) and fatigue at most 0.9, whatever
\* attention focus the think steps in between have set.
C8_FocusReleased ==
    (op = "think" /\ last_think.pre_state = "Focused" /\ last_think.eval.fatigue <= Dbl(9000))
        => /\ (last_think.pre_cause = "hunger" /\ last_think.eval.hunger < Dbl(3000))
                 => last_think.post_state = "Awake"
           /\ (last_think.pre_cause = "thirst" /\ last_think.eval.thirst < Dbl(2000))
                 => last_think.post_state = "Awake"

\* C9 as stated: the guards of the transitions (fall asleep, wake up, focus on
\* food, focus on water, leave the food focus, leave the water focus, leave
\* the location focus) are mutually exclusive at every evaluation.
C9_GuardsExclusive ==
    op = "think" => Cardinality(last_think.guards) <= 1

\* C9: several guards can hold at one evaluation; the transition made is the
\* one of the first guard that holds in the order fall asleep, wake up, focus
\* on food, focus on water, leave the food focus, leave the water focus, leave
\* the location focus, and there is none when no guard holds.
C9_FirstGuardWins ==
    op = "think" =>
        LET g == last_think.guards
        IN last_think.post_state =
             (IF "fall_asleep" \in g THEN "Asleep"
              ELSE IF "wake_up" \in g THEN "Awake"
              ELSE IF "focus_food" \in g \/ "focus_water" \in g THEN "Focused"
              ELSE IF g # {} THEN "Awake"
              ELSE last_think.pre_state)

C9_Witness ==
    /\ op = "think"
    /\ {"fall_asleep", "focus_food", "focus_water"} \subseteq last_think.guards
    /\ last_think.post_state = "Asleep"

\* what one call of transition_to_state may do: nothing when the target is the
\* current state, else exit() of the old state once, then enter() of the new
HooksOf(from, to) == IF from = to THEN <<>> ELSE << <<"exit", from>>, <<"enter", to>> >>

\* C10: think makes at most one state change; every change runs exit() of the
\* old state once and then enter() of the new one once; entering Asleep leaves
\* attention_focus None; a transition whose target is the current state runs
\* no hook and changes nothing.
C10_TransitionHooks ==
    [][/\ op' = "think"
          => /\ last_think'.hooks = HooksOf(current_consciousness_state,
                                            current_consciousness_state')
             /\ (current_consciousness_state' = "Asleep"
                 /\ current_consciousness_state # "Asleep") => attention_focus' = NoFocus
       /\ op' = "transition_to_state"
          => /\ current_consciousness_state' = last_transition'.to
             /\ last_transition'.hooks = HooksOf(current_consciousness_state,
                                                 current_consciousness_state')
             /\ (current_consciousness_state' = "Asleep"
                 /\ current_consciousness_state # "Asleep") => attention_focus' = NoFocus
             /\ last_transition'.to = current_consciousness_state
                  => UNCHANGED <<current_consciousness_state, attention_focus, internal_state,
                                 emotion_state, active_goals, perception, procedures, pos,
                                 grid, working_memory_buffer>>]_vars

C10_Witness ==
    /\ op = "transition_to_state"
    /\ last_transition.from = "Focused" /\ last_transition.to = "Focused"
    /\ last_transition.hooks = <<>>
    /\ attention_focus = "food"

\* C11 (as stated): within a tick the needs are updated before the
\* consciousness transition check, so the check of a think() call is
\* evaluated on the needs that call leaves behind.  Agent.think runs the
\* check first (lines 661-679) and the update afterwards, inside
\* _think_default (lines 515-516).
C11_CheckSeesUpdatedNeeds ==
    op = "think" => last_think.eval = internal_state

\* C12: in every tick, whatever the consciousness state, the action's effects
\* are followed by one learner update (one transition pushed) and one episodic
\* record.
C12_EveryActLearns ==
    [][op' = "act" =>
          /\ learner'.updates = learner.updates + 1
          /\ episodic'.writes = episodic.writes + 1]_vars

\* C13 (as stated): with target_update_frequency N, right after every N-th
\* call of update, counted from construction (calls that raised KeyError
\* left aside), the target network's weights equal the policy network's.
C13_SyncEveryNthCall ==
    (op = "q_update" /\ ~q_trace.raised
        /\ q_trace.updates % q_learner.target_update_frequency = 0)
    => q_learner.target_net = q_learner.policy_net

\* C13 (amended): right after every N-th update call that performs a
\* gradient step, that is whenever such a call brings update_count to a
\* multiple of N, the target network's weights equal the policy network's.
C13_SyncEveryNthTraining ==
    (op = "q_update" /\ q_trace.trained
        /\ q_learner.update_count % q_learner.target_update_frequency = 0)
    => q_learner.target_net = q_learner.policy_net

\* the third update call is the second one that trains (batch_size 2): with
\* N = 2 it syncs a target that had fallen behind
C13_Witness ==
    /\ op = "q_update" /\ q_trace.trained
    /\ q_trace.updates = 3 /\ q_learner.update_count = 2
    /\ q_learner.target_update_frequency = 2
    /\ q_trace.before.target_net # q_trace.before.policy_net
    /\ q_learner.target_net = q_learner.policy_net

\* C14: the target network's weights change only by receiving the policy
\* network's weights, in an update call that is a sync point or in
\* load_model; an update call that is not a sync point, choose_action and
\* save_model leave them as they are.
C14_TargetOnlyCopied ==
    [][/\ q_learner'.target_net # q_learner.target_net
          => /\ op' \in {"q_update", "q_load_model"}
             /\ q_learner'.target_net = q_learner'.policy_net
       /\ (op' = "q_update"
             /\ ~(q_trace'.trained
                   /\ q_learner'.update_count % q_learner'.target_update_frequency = 0))
          => q_learner'.target_net = q_learner.target_net
       /\ op' \in {"q_choose_action", "q_save_model"}
          => q_learner'.target_net = q_learner.target_net]_vars

\* an update that trained without being a sync point: the policy network
\* moved on, the target network kept the weights of the last copy
C14_Witness ==
    /\ op = "q_update" /\ q_trace.trained
    /\ q_learner.update_count % q_learner.target_update_frequency # 0
    /\ q_learner.target_net = q_trace.before.target_net
    /\ q_learner.target_net # q_learner.policy_net

\* C15 (as stated): for any constructor values, epsilon after an update is
\* at most epsilon before it, and epsilon >= epsilon_min in every state from
\* construction on.
C15_EpsilonDecays ==
    /\ op = "q_update" => q_learner.epsilon <= q_trace.before.epsilon
    /\ q_learner.epsilon >= q_learner.epsilon_min

\* C15 (amended): epsilon after an update is at most the larger of epsilon
\* before it and epsilon_min; epsilon >= epsilon_min holds after every update
\* that recorded its transition, and is kept by every call once it holds (so
\* from construction on when the constructor's epsilon >= epsilon_min).
C15_EpsilonDecaysToFloor ==
    [][/\ op' = "q_update"
          => q_learner'.epsilon <= Max(q_learner.epsilon, q_learner.epsilon_min)
       /\ (op' = "q_update" /\ q_trace'.pushed)
          => q_learner'.epsilon >= q_learner'.epsilon_min
       /\ q_learner.epsilon >= q_learner.epsilon_min
          => q_learner'.epsilon >= q_learner'.epsilon_min]_vars

\* an update whose decayed epsilon would have fallen below epsilon_min
C15_Witness ==
    /\ op = "q_update" /\ q_trace.pushed
    /\ q_trace.before.epsilon > q_learner.epsilon_min
    /\ (q_trace.before.epsilon * q_learner.epsilon_decay_rate) \div EpsScale
          < q_learner.epsilon_min
    /\ q_learner.epsilon = q_learner.epsilon_min

\* the last n items of a sequence
LastItems(seq, n) == SubSeq(seq, Len(seq) - n + 1, Len(seq))

\* C16: the replay buffer never holds more than its capacity, and it holds
\* the most recent min(pushes, capacity) transitions in insertion order.
C16_BufferFifo ==
    /\ Len(q_learner.replay_buffer) <= q_learner.capacity
    /\ q_learner.replay_buffer =
          LastItems(q_trace.pushes, Min(Len(q_trace.pushes), q_learner.capacity))

\* one push more than the capacity: the first transition is gone, the
\* second, a different one, is now the oldest
C16_Witness ==
    /\ Len(q_trace.pushes) = q_learner.capacity + 1
    /\ Len(q_learner.replay_buffer) = q_learner.capacity
    /\ q_trace.pushes[1] # q_trace.pushes[2]
    /\ Head(q_learner.replay_buffer) = q_trace.pushes[2]

\* C17: an update call after whose push the buffer holds fewer than
\* batch_size transitions has recorded that one transition and nothing
\* else: policy weights, target weights and update_count are as before, and
\* no error is raised.
C17_ShortBufferOnlyRecords ==
    (op = "q_update" /\ q_trace.pushed
        /\ Len(q_learner.replay_buffer) < q_learner.batch_size)
    => /\ ~q_trace.raised /\ ~q_trace.trained
       /\ q_learner.policy_net = q_trace.before.policy_net
       /\ q_learner.target_net = q_trace.before.target_net
       /\ q_learner.update_count = q_trace.before.update_count
       /\ q_learner.replay_buffer # <<>>
       /\ q_learner.replay_buffer[Len(q_learner.replay_buffer)]
             = q_trace.pushes[Len(q_trace.pushes)]
       /\ \/ q_learner.replay_buffer
                = Append(q_trace.before.replay_buffer, q_trace.pushes[Len(q_trace.pushes)])
          \/ /\ Len(q_trace.before.replay_buffer) = q_learner.capacity
             /\ q_learner.replay_buffer
                   = Append(Tail(q_trace.before.replay_buffer),
                            q_trace.pushes[Len(q_trace.pushes)])

\* the second update of a learner with batch_size 3
C17_Witness ==
    /\ op = "q_update" /\ q_trace.pushed
    /\ q_learner.batch_size = 3
    /\ Len(q_learner.replay_buffer) = 2
    /\ Len(q_trace.before.replay_buffer) = 1
    /\ q_learner.update_count = 0

\* the procedure get_triggered_procedure hands to a decide_final_action call
\* made in the current state (0 for None)
TriggeredNow ==
    get_triggered_procedure(procedures, internal_state, perception, active_goals,
                            current_time_step).index

\* C18 (as stated): with no critical override, the procedural stage returns
\* the triggered procedure's suggested action exactly when its priority is
\* strictly greater than 0.7 (reactive) or 0.9 (deliberative); otherwise the
\* decision goes on to the learner stage.
C18_ProcedureAboveThreshold ==
    [][(op' = "decide_final_action" /\ ~SomeNeedAbove(internal_state, Dbl(8500)))
       => LET i == TriggeredNow
              fires == /\ i # 0
                       /\ procedures[i].priority
                             > (IF last_decide'.mode = "reactive" THEN 7000 ELSE 9000)
          IN IF fires
             THEN /\ last_decide'.stage = "procedure"
                  /\ last_decide'.action = procedures[i].action
             ELSE last_decide'.stage \in {"arbitration", "learner"}]_vars

\* C18 (amended): the same with "at least" in place of "strictly greater
\* than": a procedure whose priority equals the threshold fires.
C18_ProcedureAtThreshold ==
    [][(op' = "decide_final_action" /\ ~SomeNeedAbove(internal_state, Dbl(8500)))
       => LET i == TriggeredNow
              fires == /\ i # 0
                       /\ procedures[i].priority
                             >= (IF last_decide'.mode = "reactive" THEN 7000 ELSE 9000)
          IN IF fires
             THEN /\ last_decide'.stage = "procedure"
                  /\ last_decide'.action = procedures[i].action
             ELSE last_decide'.stage \in {"arbitration", "learner"}]_vars

\* a deliberative decision taken by the obstacle procedure, whose priority
\* is the threshold 0.9 itself
C18_Witness ==
    /\ op = "decide_final_action"
    /\ last_decide.mode = "deliberative" /\ last_decide.stage = "procedure"
    /\ last_decide.action = "move_object"
    /\ \E i \in 1..Len(procedures) :
          /\ procedures[i].action = "move_object" /\ procedures[i].priority = 9000
          /\ procedures[i].last_triggered_step = current_time_step

\* C19 (as stated): every id among the prerequisites of the goal the arbiter
\* selects for pursuit names a goal of the store whose completed flag is
\* true, also when the store holds prerequisite ids that name no goal.
C19_SelectedPrerequisitesCompleted ==
    [][(op' = "decide_final_action" /\ last_decide'.selected # NoGoalId)
       => LET i == GoalIndex(active_goals, last_decide'.selected)
          IN \A q \in active_goals[i].prerequisites :
                /\ GoalIndex(active_goals, q) # 0
                /\ active_goals[GoalIndex(active_goals, q)].completed]_vars

\* C20: a completed flag that is true stays true, no goal leaves the store,
\* and no call of the arbiter selects for pursuit a goal whose completed
\* flag is true.  The arbiter has one assignment of False to a completed
\* flag, that of 'sub_goal_clear_obstacle' when an obstacle blocks the way of
\* the reach_location goal it pursues (decision_maker.py line 188); with an
\* obstacle in sight and a reach_location goal open, the procedure 'Clear
\* Obstacle' (priority 0.9) is triggered and returns before the goals are
\* looked at, in either mode.
C20_CompletionPermanent ==
    [][\A i \in 1..Len(active_goals) :
          /\ Len(active_goals') >= Len(active_goals)
          /\ active_goals'[i].id = active_goals[i].id
          /\ active_goals[i].completed
             => /\ active_goals'[i].completed
                /\ (op' = "decide_final_action"
                      \/ (op' = "think" /\ last_think'.stage = "arbitration"))
                   => last_decide'.selected # active_goals[i].id]_vars

\* a deliberative decision taken with the sub-goal completed, the main goal
\* open and an obstacle in sight between the agent and the goal's target
C20_Witness ==
    /\ op = "decide_final_action" /\ last_decide.mode = "deliberative"
    /\ perception.obstacle_in_sight
    /\ BlockingObstacle(pos, <<5, 5>>, perception.obstacle_locations) # NoLoc
    /\ \E i \in 1..Len(active_goals) :
          active_goals[i].id = ClearObstacleId /\ active_goals[i].completed
    /\ \E i \in 1..Len(active_goals) :
          active_goals[i].id = ReachCenterId /\ ~active_goals[i].completed

\* the uncompleted reach_location goals whose target is the agent's cell
ReachedOpenGoals ==
    {i \in 1..Len(active_goals) :
        /\ active_goals[i].type = "reach_location" /\ ~active_goals[i].completed
        /\ active_goals[i].target = pos}

\* C21 (as stated): whenever decide_final_action is called while some
\* uncompleted reach_location goal's target is the agent's cell, that goal's
\* completed flag is true when the call returns.
C21_ReachedGoalCompleted ==
    [][op' = "decide_final_action"
       => \A i \in ReachedOpenGoals : active_goals'[i].completed]_vars

\* C21 (amended): the flag is set when the call is made in deliberative mode,
\* neither a critical override nor the procedural stage returns, and the
\* goal is the one the arbiter selects for pursuit; in every other call the
\* goal stays as it was.
C21_SelectedReachedGoalCompleted ==
    [][op' = "decide_final_action"
       => \A i \in ReachedOpenGoals :
             active_goals'[i].completed
                <=> /\ last_decide'.mode = "deliberative"
                    /\ last_decide'.stage = "arbitration"
                    /\ RelevantGoal(active_goals) = i]_vars

\* a deliberative call that selected the main goal on its target cell and
\* completed it
C21_Witness ==
    /\ op = "decide_final_action" /\ last_decide.mode = "deliberative"
    /\ last_decide.stage = "arbitration" /\ last_decide.selected = ReachCenterId
    /\ pos = <<5, 5>>
    /\ \E i \in 1..Len(active_goals) :
          active_goals[i].id = ReachCenterId /\ active_goals[i].completed

\* a step in which decide_final_action, called directly or by
\* _think_default, went past the critical and the procedural stage
PastOverrides ==
    \/ op' = "decide_final_action" /\ last_decide'.stage \in {"learner", "arbitration"}
    \/ op' = "think" /\ last_think'.stage \in {"learner", "arbitration"}

\* C22: in stormy weather a call of decide_final_action that neither a
\* critical override nor the procedural stage ended returns 'rest', in both
\* modes and whatever the goals, the curiosity and the perceived agents are.
C22_StormForcesRest ==
    [][(PastOverrides /\ perception.current_weather = "stormy")
       => last_decide'.action = "rest"]_vars

\* the agent as a direct call of decide_final_action reads it
ArbiterView ==
    [is |-> internal_state, em |-> emotion_state, goals |-> active_goals, pos |-> pos,
     perc |-> perception, wm |-> working_memory_buffer, procs |-> procedures,
     t |-> current_time_step, grid |-> grid]

\* the learner's suggestions with which a deliberative call on the agent as
\* it is reaches the refinement stage
ReachingRefinement ==
    {dqn \in Actions :
        decide_final_action(ArbiterView, "deliberative", dqn, FALSE, "move_up").stage
           = "arbitration"}

\* C23: in the refinement stage of a deliberative call (a) working-memory
\* recall redirects the candidate toward the recalled food (resp. water)
\* only if hunger (resp. thirst) is elevated, above the 0.6 of the stage's
\* own rules, and the candidate is not the need's own action, a move or
\* move_object; in particular recall leaves the candidate unchanged when the
\* need is not elevated; and (b) a move or move_object that goal pursuit
\* produced leaves the stage unchanged.
C23_RefinementNeedsElevation ==
    \A dqn \in ReachingRefinement :
       LET a == ArbiterView
           cand == GoalPursuit(a, "deliberative", dqn).action
           sem == RefineSemantic(a, cand)
           k == RecalledItem(a)
           need == IF a.wm[k].type = "perceived_food" THEN a.is.hunger ELSE a.is.thirst
           own == IF a.wm[k].type = "perceived_food" THEN "seek_food" ELSE "drink_water"
       IN /\ RefineRecall(a, sem) # sem
             => need > Dbl(6000) /\ sem \notin ({own, "move_object"} \cup Moves)
          /\ (RelevantGoal(a.goals) # 0 /\ cand \in Moves \cup {"move_object"})
             => Refine(a, "deliberative", cand) = cand

\* C24: two calls of decide_final_action on the same agent state, in the
\* same mode and with the same suggestion of the learner, return the same
\* action: the result depends on nothing else, in particular not on the
\* numbers the arbiter draws from the random module (random.random() in
\* rainy weather, random.choice for the curious move).
C24_SameStateSameAction ==
    \A mode \in {"reactive", "deliberative"} : \A dqn \in Actions :
    \A coin1 \in BOOLEAN : \A coin2 \in BOOLEAN : \A rmove1 \in Moves : \A rmove2 \in Moves :
       decide_final_action(ArbiterView, mode, dqn, coin1, rmove1).action
          = decide_final_action(ArbiterView, mode, dqn, coin2, rmove2).action

\* C25: an action string outside the known action set that reaches the
\* executor of an Awake or Focused agent, one starting with "move_"
\* included, is a no-op with the reward -0.2: position and grid are
\* unchanged, nothing in the act step raises (the learner update included),
\* and the step completes with its episodic record and its step counter.
C25_UnknownActionIsNoOp ==
    [][(op' = "act" /\ last_act'.state # "Asleep" /\ last_act'.action \notin Actions)
       => /\ pos' = pos /\ grid' = grid
          /\ last_action_reward' = -20
          /\ ~last_act'.raised
          /\ episodic'.writes = episodic.writes + 1
          /\ current_time_step' = current_time_step + 1]_vars

\* the cell one step from p in the direction a move asks for: up and down
\* change the row (pos_x), left and right the column (pos_y)
OneCellFrom(p, action) ==
    IF action = "move_up" THEN <<p[1] - 1, p[2]>>
    ELSE IF action = "move_down" THEN <<p[1] + 1, p[2]>>
    ELSE IF action = "move_left" THEN <<p[1], p[2] - 1>>
    ELSE <<p[1], p[2] + 1>>

\* what the claim says of a move request made of an agent standing at pos
MoveRequestHonoured ==
    LET tgt == OneCellFrom(pos, last_act'.action)
    IN IF tgt \notin Cells \/ tgt \in grid.obstacle
       THEN pos' = pos /\ grid' = grid /\ last_action_reward' = -10
       ELSE pos' = tgt

\* C26 (as stated): every move_up, move_down, move_left or move_right
\* request whose target cell is an obstacle or outside the grid leaves
\* position and grid unchanged with the reward -0.1; every other one moves
\* the agent by one cell in the requested direction.
C26_MoveRequest ==
    [][(op' = "act" /\ last_act'.action \in Moves) => MoveRequestHonoured]_vars

\* C26 (amended): the same of the requests that reach the executor, those
\* made of an Awake or Focused agent; a sleeping agent rests whatever it is
\* asked.
C26_MoveRequestUnlessAsleep ==
    [][(op' = "act" /\ last_act'.action \in Moves /\ last_act'.state # "Asleep")
       => MoveRequestHonoured]_vars

\* an Awake agent at (4,4) asked to move right, onto the obstacle at (4,5),
\* and left where it was with the reward -0.1
C26_Witness ==
    /\ op = "act" /\ last_act.state = "Awake" /\ last_act.action = "move_right"
    /\ last_act.pre_pos = <<4, 4>> /\ <<4, 5>> \in grid.obstacle
    /\ pos = <<4, 4>> /\ last_action_reward = -10

\* both learners, epsilon 0, choose the same action for every probe state and
\* whatever the random source returns
SameGreedyChoices(l1, l2) ==
    \A x \in ProbeStates : \A u \in RandomDraws : \A r \in 0..(Len(l1.actions) - 1) :
       choose_action([l1 EXCEPT !.epsilon = 0], x[1], x[2], u, r)
         = choose_action([l2 EXCEPT !.epsilon = 0], x[1], x[2], u, r)

\* C27: when a learner L has written the file with save_model and a freshly
\* constructed learner L' then loads that file with load_model, L' holds the
\* policy weights L had when it saved, the same weights in its target
\* network, and with epsilon 0 it chooses the action L would have chosen for
\* every probe state.
C27_SaveLoadRoundTrip ==
    (op = "q_load_model_fresh" /\ q_trace.saved # <<>>)
    => /\ q_trace.loaded[1].policy_net = q_trace.saved[1].policy_net
       /\ q_trace.loaded[1].target_net = q_trace.loaded[1].policy_net
       /\ SameGreedyChoices(q_trace.loaded[1], q_trace.saved[1])

\* a learner saved its model after a training step that left its target
\* network behind and went on training; the second learner was constructed
\* with other weights, with which it would have chosen otherwise, and loaded
\* the file
C27_Witness ==
    /\ op = "q_load_model_fresh" /\ q_trace.saved # <<>>
    /\ q_trace.saved[1].update_count > 0
    /\ q_trace.saved[1].target_net # q_trace.saved[1].policy_net
    /\ q_learner.policy_net # q_trace.saved[1].policy_net
    /\ q_trace.constructed[1].policy_net # q_trace.saved[1].policy_net
    /\ ~SameGreedyChoices(q_trace.constructed[1], q_trace.saved[1])
    /\ q_trace.loaded[1].policy_net = q_trace.saved[1].policy_net

\* C28: load_model on a missing or invalid model file does not raise and
\* leaves the learner with the policy and target weights, epsilon, replay
\* buffer and update count it had before the call.
C28_BadFileLeavesLearner ==
    [][(op' = "q_load_model" /\ model_file \in {NoFile, CorruptFile, OtherArchFile})
       => (~q_trace'.raised /\ q_learner' = q_learner)]_vars

\* a step leaves procedure i as it was or adds one to one of its two counts
OutcomeFeedbackOnly(i) ==
    \/ procedures'[i] = procedures[i]
    \/ procedures'[i] = [procedures[i] EXCEPT !.success_count = @ + 1]
    \/ procedures'[i] = [procedures[i] EXCEPT !.failure_count = @ + 1]

\* C29: a procedure record changes only by outcome feedback adding one to
\* success_count or failure_count; the query get_triggered_procedure and the
\* arbiter that runs it change no field, and no step changes a stored
\* priority.
C29_ProceduresChangeByFeedbackOnly ==
    [][/\ Len(procedures') = Len(procedures)
       /\ \A i \in 1..Len(procedures) :
             /\ OutcomeFeedbackOnly(i)
             /\ procedures'[i].priority = procedures[i].priority
       /\ (op' \in {"think", "decide_final_action"} => procedures' = procedures)]_vars

\* the calls World.step makes on a list of n agents, in order
FullTick(n) ==
    [k \in 1..(3 * n) |->
        <<((k - 1) \div 3) + 1,
          IF k % 3 = 1 THEN "sense" ELSE IF k % 3 = 2 THEN "think" ELSE "act">>]

\* the calls made so far in the current tick are the first of FullTick
InListOrder ==
    /\ Len(tick_log) <= 3 * (Len(roster) + 1)
    /\ tick_log = SubSeq(FullTick(Len(roster) + 1), 1, Len(tick_log))

\* C30: within World.step the agents run one after another in list order,
\* each agent's sense, think and act before the next agent's sense; the tick
\* index never moves but by one, and it moves exactly when the step that was
\* taken completed the sense-think-act cycle of every agent, one cycle each.
C30_AgentsInTurn ==
    [][/\ InListOrder'
       /\ world'.time_step \in {world.time_step, world.time_step + 1}
       /\ (world'.time_step = world.time_step + 1)
             <=> (/\ tick_log' # tick_log /\ tick_log' = FullTick(Len(roster) + 1)
                  /\ pc' # "crashed")]_vars

\* three agents, each asleep since its think, have acted in turn and the
\* tick index has moved on
C30_Witness ==
    /\ Len(roster) = 2 /\ op = "act" /\ name = 3
    /\ tick_log = FullTick(3)
    /\ world.time_step = 2
    /\ pc = "update_environment"

\* a think call of an agent that is Awake or Focused after its transition
\* check, the arbiter reached with some need above 0.85
CriticalTick ==
    /\ op' = "think" /\ ~last_think'.raised
    /\ last_think'.post_state \in {"Awake", "Focused"}
    /\ SomeNeedAbove(last_think'.decide_is, Dbl(CriticalThreshold))

\* C31: in a tick where the agent is Awake or Focused and some need exceeds
\* 0.85, the arbiter returns at its critical stage and think() returns that
\* very action; the overrides of the Focused state do not replace it.
C31_CriticalOverrideFinal ==
    [][CriticalTick => /\ last_think'.stage = "critical"
                       /\ last_think'.decision = CriticalOverride(last_think'.decide_is)
                       /\ last_think'.result = last_think'.decision
                       /\ pending' = last_think'.decision]_vars

Manhattan(p, q) == Abs(p[1] - q[1]) + Abs(p[2] - q[2])

\* C32: with the goals of the constructor, no obstacle perceived and the
\* agent away from (5,5), a deliberative call that neither a critical
\* override nor a procedure ends selects goal_reach_center, the sub-goal
\* ranking below it, and its goal stage sets the candidate to a move that
\* brings the agent one cell nearer to (5,5).
C32_MainGoalSelected ==
    (active_goals = InitialGoals /\ ~perception.obstacle_in_sight /\ pos # <<5, 5>>)
    => \A dqn \in ReachingRefinement :
          LET cand == GoalPursuit(ArbiterView, "deliberative", dqn).action
          IN /\ SelectedGoal(active_goals, "deliberative") = ReachCenterId
             /\ cand \in Moves
             /\ Manhattan(MoveTarget(pos, cand), <<5, 5>>) = Manhattan(pos, <<5, 5>>) - 1

(***************************************************************************)
(* Removal of a blocking obstacle.  The obstacle in question is the one    *)
(* the reach_location branch of the arbiter names (decision_maker.py lines *)
(* 177-206): the first perceived obstacle inside the rectangle spanned by  *)
(* the agent and the target of the location goal.                          *)
(***************************************************************************)
BlockingNow ==
    IF perception.obstacle_in_sight
    THEN BlockingObstacle(pos, <<5, 5>>, perception.obstacle_locations)
    ELSE NoLoc

HasEmptyNeighbour(g, o) == \E d \in Cells : CanMoveObject(g, o, d)

AdjacentBlocked ==
    /\ BlockingNow # NoLoc
    /\ Abs(pos[1] - BlockingNow[1]) <= 1 /\ Abs(pos[2] - BlockingNow[2]) <= 1
    /\ HasEmptyNeighbour(grid, BlockingNow)

\* C33: act('move_object') by an agent within one cell of the obstacle that
\* blocks the way to its location goal moves that obstacle to an adjacent
\* empty cell when there is one: the blocking cell is empty afterwards and
\* the number of obstacles is the same.
C33_MoveObjectRelocates ==
    [][(op' = "act" /\ last_act'.action = "move_object" /\ last_act'.state # "Asleep"
        /\ AdjacentBlocked)
       => /\ GridAt(grid', BlockingNow) = "empty"
          /\ Cardinality(grid'.obstacle) = Cardinality(grid.obstacle)]_vars

(***************************************************************************)
(* The maintain goals under the arbiter.  The runs call sense(), think()   *)
(* and decide_final_action(agent, mode) on agents whose goal store is the  *)
(* constructor's or the constructor's some ticks on: the goals above a     *)
(* maintain goal completed and its counter one or two short of             *)
(* duration_steps (20 for 'Stay Fed', 15 for 'Stay Hydrated'), with needs  *)
(* below, at and above the thresholds 0.3 and 0.2.                         *)
(***************************************************************************)
MaxMaintainCalls == 2

\* hunger, fatigue, thirst
MaintainNeeds ==
    {<<2000, 2000, 1000>>, <<2500, 2000, 1700>>, <<3000, 2000, 2000>>, <<9000, 2000, 1000>>}

StayFed == GoalIndex(InitialGoals, <<"goal_stay_fed", -1>>)
StayHydrated == GoalIndex(InitialGoals, <<"goal_stay_hydrated", -1>>)

MaintainStores ==
    { InitialGoals,
      [InitialGoals EXCEPT ![1].completed = TRUE, ![2].completed = TRUE,
                           ![StayHydrated].current_duration = 13],
      [InitialGoals EXCEPT ![1].completed = TRUE, ![2].completed = TRUE,
                           ![StayHydrated].completed = TRUE,
                           ![StayHydrated].current_duration = 15,
                           ![StayFed].current_duration = 18],
      [InitialGoals EXCEPT ![StayFed].current_duration = 5] }

MaintainInit ==
    /\ \E n \in MaintainNeeds : \E p \in GoalPositions : \E goals \in MaintainStores :
       \E g \in InitialGrids : ConstructedUnder(n[1], n[2], n[3], p, g, goals, "sunny")
    /\ LearnerIdle
    /\ pc = "api"
    /\ horizon = MaxMaintainCalls

MaintainSpec == MaintainInit /\ [][ArbiterNext]_vars

MaintainTypes == {"maintain_hunger_low", "maintain_thirst_low"}

NeedOf(s, type) == IF type = "maintain_hunger_low" THEN s.hunger ELSE s.thirst

OpenMaintainGoals(goals) ==
    {i \in 1..Len(goals) : goals[i].type \in MaintainTypes /\ ~goals[i].completed}

\* a call of the arbiter that reached the goal stage in deliberative mode
DeliberateTick ==
    /\ op' = "decide_final_action"
    /\ last_decide'.mode = "deliberative" /\ last_decide'.stage = "arbitration"

\* the counter goes up by one and the goal is completed at duration_steps
Counted(i) ==
    /\ active_goals'[i].current_duration = active_goals[i].current_duration + 1
    /\ active_goals'[i].completed =
          (active_goals[i].current_duration + 1 >= active_goals[i].duration_steps)

BelowThreshold(i) ==
    NeedOf(internal_state, active_goals[i].type) < Dbl(active_goals[i].threshold)

\* C34 as stated: an open maintain goal counts every tick decided
\* deliberatively without an override in which the need is below its
\* threshold, is completed when the count reaches duration_steps, and has
\* its counter put back to 0 in any tick in which the need is at or above
\* the threshold.
C34_MaintainCountsEveryTick ==
    [][op' = "decide_final_action"
       => \A i \in OpenMaintainGoals(active_goals) :
             /\ (DeliberateTick /\ BelowThreshold(i)) => Counted(i)
             /\ ~BelowThreshold(i) => active_goals'[i].current_duration = 0]_vars

\* C34 (amended): the same of the ticks in which the maintain goal is the
\* goal the arbiter selected, the open goal of highest effective priority;
\* in every other tick the goal is left as it is.
C34_MaintainCountsWhenSelected ==
    [][op' = "decide_final_action"
       => \A i \in OpenMaintainGoals(active_goals) :
             IF DeliberateTick /\ i = RelevantGoal(active_goals)
             THEN IF BelowThreshold(i) THEN Counted(i)
                  ELSE /\ active_goals'[i].current_duration = 0
                       /\ ~active_goals'[i].completed
             ELSE active_goals'[i] = active_goals[i]]_vars

\* 'Stay Fed' completed by its twentieth counted tick
C34_Witness ==
    /\ op = "decide_final_action"
    /\ last_decide.selected = InitialGoals[StayFed].id
    /\ active_goals[StayFed].completed
    /\ active_goals[StayFed].current_duration = 20
    /\ last_decide.is.hunger < Dbl(3000)

(***************************************************************************)
(* The thirst procedure.  A procedure is triggered by the condition its    *)
(* record states: for 'thirst_high' (base_agent.py lines 322-329), thirst  *)
(* at or above its threshold.                                              *)
(***************************************************************************)
WaterSearch ==
    LET s == {i \in 1..Len(procedures) : procedures[i].ctype = "thirst_high"}
    IN IF s = {} THEN 0 ELSE CHOOSE i \in s : TRUE

\* C35: with the default procedures get_triggered_procedure returns the
\* 'Emergency Water Search' procedure, suggesting drink_water, whenever
\* thirst is at least 0.7 and no procedure whose condition holds has a
\* higher effective priority.
C35_EmergencyWaterSearch ==
    LET trig == get_triggered_procedure(procedures, internal_state, perception,
                                        active_goals, current_time_step)
        w == WaterSearch
        others == {j \in 1..Len(procedures) :
                      ConditionMet(procedures[j], internal_state, perception, active_goals)}
    IN (/\ w # 0
        /\ internal_state.thirst >= Dbl(procedures[w].threshold)
        /\ \A j \in others : DynamicPriority(procedures[j]) < DynamicPriority(procedures[w]))
       => /\ trig.index = w
          /\ procedures[trig.index].action = "drink_water"

\* C36: a procedure is returned at the procedural stage only if the
\* priority by which procedural memory ranked it, the base priority
\* adjusted by its outcomes (times 1.1 capped at 1 after more successes,
\* times 0.8 after more failures), reaches the threshold of the mode.
C36_AdjustedPriorityGates ==
    [][(op' = "decide_final_action" /\ last_decide'.stage = "procedure")
       => LET trig == get_triggered_procedure(procedures, internal_state, perception,
                                              active_goals, current_time_step)
          IN /\ trig.index # 0
             /\ DynamicPriority(procedures[trig.index]) >= Dbl(ProcThreshold(last_decide'.mode))]_vars

\* C37: every action Agent.think returns, in any consciousness state, is
\* one of the nine actions of the learner's action list, so that act, which
\* the world loop calls with it, never hands the learner update an action
\* it cannot index.
C37_ThinkReturnsKnownAction ==
    /\ (op = "think" /\ ~last_think.raised)
          => /\ last_think.result \in Actions
             /\ last_think.result \in {AgentActionList[i] : i \in 1..Len(AgentActionList)}
             /\ pending = last_think.result
    /\ op = "act" => (last_act.action = pending /\ last_act.action \in Actions
                         /\ last_act.error # "KeyError")

\* both ways through think in one tick: the first agent of the list, Asleep,
\* got 'rest' and has acted with it; the second, added after it and Awake,
\* got the action the arbiter decided and act has run with that
C37_Witness ==
    /\ op = "act" /\ name = 2
    /\ last_act.state = "Awake" /\ last_think.post_state = "Awake"
    /\ last_think.stage # "" /\ last_act.action = last_think.result
    /\ Len(roster) = 1
    /\ roster[1].last_think.post_state = "Asleep"
    /\ roster[1].last_think.result = "rest"
    /\ roster[1].current_consciousness_state = "Asleep"

(***************************************************************************)
(* The world loop in a world that can still spawn an obstacle.             *)
(* _place_initial_obstacles draws cells at random until MAX_OBSTACLES are  *)
(* placed or its attempts are used up, and update_environment spawns one   *)
(* only while fewer than MAX_OBSTACLES stand on the grid.  The world below *)
(* has run three ticks without agents, its food and water grown to their   *)
(* maxima, and has one obstacle, at (4,5), or a second one at the corner   *)
(* (9,9).  Then a tired agent was added through add_agent with the start   *)
(* position (9,9) of main.py (line 130): it stands there, or, where the    *)
(* obstacle does, on a cell drawn at random, one of those below.  An agent *)
(* added later has the constructor's needs and is awake: it moves when the *)
(* learner lets the arbiter reach the goals, and the TypeError its act     *)
(* ends in ends the run.                                                   *)
(***************************************************************************)
MaxSpawnTicks == 2

SpawnGrid ==
    [food |-> {<<2, 2>>, <<3, 5>>, <<5, 5>>, <<0, 3>>, <<7, 7>>},
     water |-> {<<4, 4>>, <<0, 1>>, <<8, 1>>}, obstacle |-> {<<4, 5>>}]

\* the same world with a second obstacle, at the corner
CornerGrid == [SpawnGrid EXCEPT !.obstacle = @ \cup {<<GRID_SIZE - 1, GRID_SIZE - 1>>}]

\* cells drawn by _place_agent_randomly: next to the obstacle, and on food
SpawnCells == {<<9, 8>>, <<5, 5>>}

\* the grid and the cell of the agent
SpawnWorlds ==
    {<<CornerGrid, p>> : p \in SpawnCells}
       \cup {<<SpawnGrid, <<GRID_SIZE - 1, GRID_SIZE - 1>>>>}

SpawnInit ==
    /\ \E w \in SpawnWorlds :
          /\ w[2] \in Places(w[1], <<GRID_SIZE - 1, GRID_SIZE - 1>>)
          /\ ConstructedAfter(3, 5000, 9500, 5000, w[2], w[1], InitialGoals, "sunny", <<>>)
    /\ LearnerIdle
    /\ pc = "update_environment"
    /\ horizon = 3 + MaxSpawnTicks

SpawnSpec == SpawnInit /\ [][Next]_vars

AgentPositions == {pos} \cup RosterPositions

AsleepTwoTicks ==
    /\ op # "init"
    /\ last_think.pre_state = "Asleep" /\ last_think.post_state = "Asleep"

\* C39: under the tick loop an agent is never Asleep in more than two
\* consecutive ticks: the transition evaluation that follows two ticks
\* Asleep, the third counting the one at which it fell asleep, leaves it
\* Awake or Focused.
C39_SleepBounded ==
    [][(op' = "think" /\ AsleepTwoTicks)
       => /\ last_think'.pre_state = "Asleep"
          /\ last_think'.post_state \in {"Awake", "Focused"}
          /\ current_consciousness_state' = last_think'.post_state]_vars

\* an agent that fell asleep in the first tick of the run wakes in the
\* third, food having appeared on the grid in between
C39_Witness ==
    /\ op = "think" /\ world.time_step = 3
    /\ Cardinality(grid.food) = MAX_FOOD_ITEMS /\ <<9, 5>> \notin grid.food
    /\ last_think.pre_state = "Asleep" /\ last_think.post_state = "Awake"
    /\ "wake_up" \in last_think.guards

(***************************************************************************)
(* The goal generator under the world loop.  GoalGenerator.process runs    *)
(* its rules when ten steps have passed since it last did, for the first   *)
(* time in a think of step 9 or later.  The world has run eight or nine    *)
(* ticks without agents when the agent is added, its food and water grown  *)
(* to their maxima or one food item short of it; the agent is hungry       *)
(* (hunger 0.9) and rested or tired, and its goal store is the             *)
(* constructor's, as it is or with 'Stay Fed' completed.                   *)
(***************************************************************************)
MaxGeneratorTicks == 20

GeneratorGrids ==
    { [food |-> {<<5, 5>>, <<0, 2>>, <<2, 7>>, <<3, 0>>, <<6, 9>>},
       water |-> {<<4, 4>>, <<0, 7>>, <<7, 6>>}, obstacle |-> {<<0, 5>>, <<9, 5>>}],
      [food |-> {<<5, 5>>, <<0, 2>>, <<2, 7>>, <<3, 0>>},
       water |-> {<<4, 4>>, <<0, 7>>, <<7, 6>>}, obstacle |-> {<<0, 5>>, <<9, 5>>}] }

GeneratorStores == {InitialGoals, [InitialGoals EXCEPT ![StayFed].completed = TRUE]}

\* ticks the world has run before add_agent
GeneratorSteps == {8, 9}

GeneratorInit ==
    /\ \E goals \in GeneratorStores : \E step \in GeneratorSteps : \E f \in {2000, 9500} :
       \E g \in GeneratorGrids :
          ConstructedAfter(step, 9000, f, 0, <<8, 1>>, g, goals, "sunny", <<>>)
    /\ LearnerIdle
    /\ pc = "update_environment"
    /\ horizon = MaxGeneratorTicks

GeneratorSpec == GeneratorInit /\ [][Next]_vars

OpenOfType(goals, type) == {i \in 1..Len(goals) : goals[i].type = type /\ ~goals[i].completed}

WellFormedStore(goals) ==
    /\ \A i, j \in 1..Len(goals) : goals[i].id = goals[j].id => i = j
    /\ Cardinality(OpenOfType(goals, "maintain_hunger_low")) <= 1
    /\ Cardinality(OpenOfType(goals, "reach_location")) <= 1

\* C40: after any sequence of ticks the goal store of each agent has
\* unique goal ids, at most one uncompleted maintain_hunger_low goal and at
\* most one uncompleted reach_location goal.
C40_GoalStoreWellFormed ==
    /\ WellFormedStore(active_goals)
    /\ \A i \in 1..Len(roster) : WellFormedStore(roster[i].active_goals)

\* the generator has run in the think of step 9 and added 'Satisfy Hunger'
\* to a store whose 'Stay Fed' was completed
C40_Witness ==
    /\ op = "think" /\ world.time_step = 9
    /\ GoalIndex(active_goals, <<"goal_seek_food", 9>>) # 0
    /\ ~active_goals[GoalIndex(active_goals, <<"goal_seek_food", 9>>)].completed
    /\ active_goals[StayFed].completed
    /\ modules.last_generation_step = 9
    /\ Len(active_goals) = Len(InitialGoals) + 1

=============================================================================
